---- MODULE Spec2Model ----
(***************************************************************************)
(* Tenora tenant manager (packages/core factory/build.ts) and tenant       *)
(* registry (tenantRegistry.ts) as a state machine.                        *)
(*                                                                         *)
(* A manager owns one base handle and a cache tenantId -> Knex handle.     *)
(* getTenant is synchronous; destroyTenant, destroyAll and createTenantDb  *)
(* are async functions: each `await` is a point where other calls of the   *)
(* same event loop may run, so every async call is a task with a program   *)
(* counter and one action per segment between two awaits.                  *)
(***************************************************************************)
EXTENDS Naturals, Sequences, FiniteSets

VARIABLES
    cfg,            \* MultiTenantOptions the factory was built with
    cache,          \* Map<string, Knex>: tenant id -> handle (0 = no entry)
    handles,        \* every Knex instance created by knex(...), in creation order
    baseSt,         \* state of baseClient
    dbs,            \* tenant databases (or SQLite files) that exist
    users,          \* dedicated logins/users that exist on the server
    registryTable,  \* whether the registry table exists in the base database
    registry,       \* registry rows: tenant id -> row (NoRow = none)
    tasks,          \* in-flight / last async call of every task slot
    got,            \* per id: what the latest getTenant(id, pw) got (handle h, argument pw);
                    \* NoGet once a destroy has touched id
    gone,           \* per id: handle h the latest completed destroyTenant(id) closed, and the
                    \* handle the first getTenant(id) after it returned (0 = none yet)
    calls,          \* call budget used so far (see MaxCalls)
    table,          \* the registry table as the database holds it: a list of rows
    files,          \* base.migrationsDir on disk
    out,            \* what the latest registry / CLI helper call returned
    hist            \* helper calls made so far: upserts per id, ensureRegistryMigration calls

vars == <<cfg, cache, handles, baseSt, dbs, users, registryTable, registry, tasks, got, gone, calls,
          table, files, out, hist>>

\* state of the registry and CLI helpers, which the manager's operations do not touch
tools == <<table, files, out, hist>>

(* ------------------------------ bounds -------------------------------- *)

\* manager calls per behaviour: getTenant, destroyTenant and destroyAll count one each,
\* createTenantDb, the longest operation, counts two
MaxCalls == 4

\* knex(...) instances one behaviour may create
MaxHandles == 4

Tenants == {"a", "b"}

\* tenant ids createTenantDb is called with
NewTenants == {"a"}
Tasks == {1, 2}

\* the `password?` argument: omitted, or a string
NoPw == "<undefined>"
PwArgs == {NoPw, "s3cret"}

\* base.client values exercised: one alias per family and one unknown driver
Clients == {"pg", "mysql2", "sqlite3", "mssql", "oracledb"}

\* configurations the factory is built with: every family, with and without
\* tenant migrations / seeds directories and an encryptPassword hook
Configs ==
    { [client |-> "pg",       migrationsDir |-> TRUE,  seedsDir |-> TRUE,  encryptPassword |-> TRUE],
      [client |-> "mysql2",   migrationsDir |-> TRUE,  seedsDir |-> FALSE, encryptPassword |-> FALSE],
      [client |-> "sqlite3",  migrationsDir |-> FALSE, seedsDir |-> FALSE, encryptPassword |-> FALSE],
      [client |-> "mssql",    migrationsDir |-> FALSE, seedsDir |-> TRUE,  encryptPassword |-> TRUE],
      [client |-> "oracledb", migrationsDir |-> TRUE,  seedsDir |-> TRUE,  encryptPassword |-> FALSE] }

\* what a manager starts from: a configuration and a base database whose registry
\* migration has been applied, or (one case) has not
Starts ==
    {<<c, TRUE>> : c \in Configs} \cup {<<c, FALSE>> : c \in {x \in Configs : x.client = "pg"}}

(* --------------------- factory/shared.ts helpers ----------------------- *)

isPostgresClient(client) == client \in {"pg", "postgres", "postgresql"}

isMysqlClient(client) == client \in {"mysql", "mysql2", "mariadb"}

\* variant of isSqliteClient that goes by the prefix "sql"
isSqliteClient_loose(client) ==
    client \in {"sqlite3", "better-sqlite3", "sqlite", "sqlserver"}

isSqliteClient(client) == client \in {"sqlite3", "better-sqlite3", "sqlite"}

\* variant of isMssqlClient that also takes every driver outside the other families
isMssqlClient_loose(client) ==
    ~(isPostgresClient(client) \/ isMysqlClient(client) \/ isSqliteClient(client))

isMssqlClient(client) == client \in {"mssql", "sqlserver"}

\* JS truthiness of a password argument: undefined and "" are falsy
Truthy(pw) == pw # NoPw /\ pw # ""

\* normalizePassword: undefined stays undefined, strings pass through
normalizePassword(pw) == pw

(* ------------------------------ handles -------------------------------- *)

Handle(kind, id, pw, owner) ==
    [kind |-> kind, tenant |-> id, pw |-> pw, owner |-> owner, st |-> "open"]

HandleIds == 1..Len(handles)

CanOpen == Len(handles) < MaxHandles

\* knex.destroy() called: an open pool starts closing
StartClose(hs, S) ==
    [h \in DOMAIN hs |->
        IF h \in S /\ hs[h].st = "open" THEN [hs[h] EXCEPT !.st = "closing"] ELSE hs[h]]

\* a destroyed instance: its pool is gone and its configuration is never read again
Closed == [kind |-> "-", tenant |-> "-", pw |-> "-", owner |-> 0, st |-> "closed"]

\* the promise of knex.destroy() resolved
EndClose(hs, S) ==
    [h \in DOMAIN hs |-> IF h \in S THEN Closed ELSE hs[h]]

(* ------------------------------- tasks --------------------------------- *)

NoTask ==
    [op |-> "none", pc |-> "idle", id |-> "a", pw |-> NoPw, h |-> 0, h2 |-> 0,
     snap |-> {}, err |-> "", log |-> <<>>, dbAtStart |-> FALSE, regAtStart |-> FALSE,
     rowAtStart |-> FALSE,
     conc |-> FALSE, mark |-> 0]

Idle(t) == tasks[t].pc = "idle"

\* a new call takes the lowest free slot (slots are interchangeable)
Free(t) == Idle(t) /\ \A u \in Tasks : u < t => ~Idle(u)

\* history of getTenant / destroyTenant per tenant id
NoGet == [h |-> 0, pw |-> NoPw]
NoGone == [h |-> 0, next |-> 0]

(* ---------------------------- registry rows ---------------------------- *)

NoRow == [present |-> FALSE, password |-> NoPw, encrypted |-> NoPw]

\* base.migrationsDir: whether it is configured, whether the directory exists, its files
NoDir == [configured |-> FALSE, exists |-> FALSE, entries |-> {}]

NoOut == [op |-> "none"]

NoHist == [ups |-> [id \in Tenants |-> <<>>], ensures |-> 0]

Init ==
    /\ \E s \in Starts : cfg = s[1] /\ registryTable = s[2]
    /\ cache = [id \in Tenants |-> 0]
    /\ handles = <<>>
    /\ baseSt = "open"
    /\ dbs = {}
    /\ users = {}
    /\ registry = [id \in Tenants |-> NoRow]
    /\ tasks = [t \in Tasks |-> NoTask]
    /\ got = [id \in Tenants |-> NoGet]
    /\ gone = [id \in Tenants |-> NoGone]
    /\ calls = 0
    /\ table = <<>>
    /\ files = NoDir
    /\ out = NoOut
    /\ hist = NoHist

(* --------------------------- getTenant --------------------------------- *)

\* buildTenantConfig: the password the tenant connection is configured with
buildTenantConfig(id, pw) == Handle("tenant", id, normalizePassword(pw), 0)

\* the value getTenant(id, pw) returns is Returned(id)' : the cache entry after the call
Returned(id) == cache[id]

\* getTenant without the cache lookup: every call opens and caches a new instance
getTenant_alwaysOpen(id, pw) ==
    /\ calls < MaxCalls /\ calls' = calls + 1 /\ UNCHANGED tools
    /\ CanOpen
    /\ handles' = Append(handles, buildTenantConfig(id, pw))
    /\ cache' = [cache EXCEPT ![id] = Len(handles) + 1]
    /\ got' = [got EXCEPT ![id] = [h |-> Returned(id)', pw |-> pw]]
    /\ gone' = [gone EXCEPT ![id] = IF @.h # 0 /\ @.next = 0
                                    THEN [@ EXCEPT !.next = Returned(id)'] ELSE @]
    /\ UNCHANGED <<cfg, baseSt, dbs, users, registryTable, registry, tasks>>

getTenant(id, pw) ==
    /\ calls < MaxCalls /\ calls' = calls + 1 /\ UNCHANGED tools
    /\ IF cache[id] # 0
       THEN UNCHANGED <<cache, handles>>
       ELSE /\ CanOpen
            /\ handles' = Append(handles, buildTenantConfig(id, pw))
            /\ cache' = [cache EXCEPT ![id] = Len(handles) + 1]
    /\ got' = [got EXCEPT ![id] = [h |-> Returned(id)', pw |-> pw]]
    /\ gone' = [gone EXCEPT ![id] = IF @.h # 0 /\ @.next = 0
                                    THEN [@ EXCEPT !.next = Returned(id)'] ELSE @]
    /\ UNCHANGED <<cfg, baseSt, dbs, users, registryTable, registry, tasks>>

(* -------------------------- destroyTenant ------------------------------ *)

\* const tenantClient = cache.get(id); if (tenantClient) { await tenantClient.destroy(); ...
destroyTenantCall(t, id) ==
    /\ calls < MaxCalls /\ calls' = calls + 1 /\ UNCHANGED tools
    /\ Free(t)
    /\ IF cache[id] # 0
       THEN /\ handles' = StartClose(handles, {cache[id]})
            /\ tasks' = [tasks EXCEPT ![t] =
                   [NoTask EXCEPT !.op = "destroyTenant", !.pc = "dt_await", !.id = id,
                                  !.h = cache[id]]]
            /\ got' = [got EXCEPT ![id] = NoGet]
       ELSE UNCHANGED <<handles, tasks, got>>
    /\ UNCHANGED <<cfg, cache, baseSt, dbs, users, registryTable, registry, gone>>

\* destroyTenant without cache.delete: the closed instance stays cached
destroyTenantResume_keepEntry(t) ==
    /\ UNCHANGED <<calls, tools>>
    /\ tasks[t].pc = "dt_await"
    /\ handles' = EndClose(handles, {tasks[t].h})
    /\ got' = [got EXCEPT ![tasks[t].id] = NoGet]
    /\ gone' = [gone EXCEPT ![tasks[t].id] = [h |-> tasks[t].h, next |-> 0]]
    /\ tasks' = [tasks EXCEPT ![t] = NoTask]
    /\ UNCHANGED <<cfg, cache, baseSt, dbs, users, registryTable, registry>>

\* ... destroy() resolved; cache.delete(id); }
destroyTenantResume(t) ==
    /\ UNCHANGED <<calls, tools>>
    /\ tasks[t].pc = "dt_await"
    /\ handles' = EndClose(handles, {tasks[t].h})
    /\ cache' = [cache EXCEPT ![tasks[t].id] = 0]
    /\ got' = [got EXCEPT ![tasks[t].id] = NoGet]
    /\ gone' = [gone EXCEPT ![tasks[t].id] = [h |-> tasks[t].h, next |-> 0]]
    /\ tasks' = [tasks EXCEPT ![t] = NoTask]
    /\ UNCHANGED <<cfg, baseSt, dbs, users, registryTable, registry>>

(* ---------------------------- destroyAll ------------------------------- *)

CachedHandles == {cache[id] : id \in Tenants} \ {0}

\* await Promise.all([...cache.values()].map((k) => k.destroy()))
destroyAllCall(t) ==
    /\ calls < MaxCalls /\ calls' = calls + 1 /\ UNCHANGED tools
    /\ Free(t)
    /\ baseSt = "open"
    /\ handles' = StartClose(handles, CachedHandles)
    /\ tasks' = [tasks EXCEPT ![t] =
           [NoTask EXCEPT !.op = "destroyAll", !.pc = "da_await", !.snap = CachedHandles]]
    /\ got' = [id \in Tenants |-> NoGet]
    /\ UNCHANGED <<cfg, cache, baseSt, dbs, users, registryTable, registry, gone>>

\* cache.clear(); await baseClient.destroy()
destroyAllClear(t) ==
    /\ UNCHANGED <<calls, tools>>
    /\ tasks[t].pc = "da_await"
    /\ handles' = EndClose(handles, tasks[t].snap)
    /\ cache' = [id \in Tenants |-> 0]
    /\ baseSt' = IF baseSt = "open" THEN "closing" ELSE baseSt
    /\ got' = [id \in Tenants |-> NoGet]
    /\ tasks' = [tasks EXCEPT ![t].pc = "da_base"]
    /\ UNCHANGED <<cfg, dbs, users, registryTable, registry, gone>>

destroyAllResume(t) ==
    /\ UNCHANGED <<calls, tools>>
    /\ tasks[t].pc = "da_base"
    /\ baseSt' = "closed"
    /\ tasks' = [tasks EXCEPT ![t] = NoTask]
    /\ UNCHANGED <<cfg, cache, handles, dbs, users, registryTable, registry, got, gone>>

(* ------------------- tenantRegistry.ts: registry ------------------------ *)

\* variant of ensureRegistryTable that never throws
ensureRegistryTable_always == TRUE

\* ensureRegistryTable: base.schema.hasTable(registry.table), else throw
ensureRegistryTable == registryTable

\* the encrypt hook's output for a plaintext
encrypt(pw) == "enc:" \o pw

\* variant of resolveEncrypt that finds no hook
resolveEncrypt_none == FALSE

\* resolveEncrypt: options.encryptPassword (or the TENORA_KEY default), else undefined
resolveEncrypt == cfg.encryptPassword

\* the `record` upsertTenantInRegistry builds: the columns it will write
upsertRecord(pw) ==
    IF Truthy(pw) /\ resolveEncrypt
    THEN [encrypted |-> encrypt(pw)]
    ELSE IF Truthy(pw) THEN [password |-> pw] ELSE <<>>

\* variant of upsertTenantInRegistry that leaves an existing row alone
upsertTenantInRegistry_insertOnly(row, pw) ==
    IF row.present THEN row
    ELSE [present |-> TRUE,
          password |-> IF Truthy(pw) /\ ~cfg.encryptPassword THEN pw ELSE NoPw,
          encrypted |-> IF Truthy(pw) /\ cfg.encryptPassword THEN "enc:" \o pw ELSE NoPw]

\* insert(record).onConflict(idColumn).merge(record): a new row holds the record's
\* columns and NULL elsewhere; an existing row gets the record's columns overwritten
upsertTenantInRegistry(row, pw) ==
    LET rec == upsertRecord(pw)
        old == IF row.present THEN row ELSE NoRow
    IN  [present |-> TRUE,
         password |-> IF "password" \in DOMAIN rec THEN rec.password ELSE old.password,
         encrypted |-> IF "encrypted" \in DOMAIN rec THEN rec.encrypted ELSE old.encrypted]

(* --------------------------- createTenantDb ----------------------------- *)

Running(t) == tasks[t].op = "createTenantDb" /\ tasks[t].pc \notin {"idle", "done"}

\* the call settles: its promise resolves (err = "") or rejects with err; log lists,
\* in order, what the call did: connections created ("admin", "tenantAdmin",
\* "tenantKnex"), statements answered without error ("check", "createdb", "user",
\* "grant", "migrate", "seed", "registry") and "release" for the finally block of
\* tenantKnex
Settle(t, err, log) ==
    [tasks[t] EXCEPT !.pc = "done", !.err = err, !.log = log, !.h = 0, !.h2 = 0]

\* first await after tenantKnex was created: migrate.latest(), seed.run(), or the
\* finally block's tenantKnex.destroy()
AfterTenantKnex ==
    IF cfg.migrationsDir THEN "cr_migrate" ELSE IF cfg.seedsDir THEN "cr_seed" ELSE "cr_release"

\* tenantPassword && hasTenantPassword
wantsUser(pw) == Truthy(normalizePassword(pw)) /\ pw # NoPw

\* new Error(`Tenora: createTenantDb is only supported for ... (got "${client}").`)
UnsupportedError(client) == "Unsupported: " \o client

createTenantDbCall(t, id, pw) ==
    /\ calls + 2 <= MaxCalls /\ calls' = calls + 2 /\ UNCHANGED tools
    /\ Free(t)
    /\ tasks' = [u \in Tasks |->
          IF u = t
          THEN [NoTask EXCEPT !.op = "createTenantDb", !.pc = "cr_registry", !.id = id,
                              !.pw = pw, !.dbAtStart = (id \in dbs),
                              !.regAtStart = registryTable,
                              !.rowAtStart = registry[id].present,
                              !.conc = \E v \in Tasks : Running(v) /\ tasks[v].id = id]
          ELSE IF Running(u) /\ tasks[u].id = id THEN [tasks[u] EXCEPT !.conc = TRUE]
          ELSE tasks[u]]
    /\ UNCHANGED <<cfg, cache, handles, baseSt, dbs, users, registryTable, registry, got, gone>>

\* ensureRegistryTable answered; SQLite: create the file and tenantKnex; other
\* clients: create the admin connection and issue the first statement
createAfterRegistry(t) ==
    LET c == tasks[t] IN
    /\ UNCHANGED <<calls, tools>>
    /\ c.pc = "cr_registry"
    /\ IF baseSt # "open"
       THEN /\ tasks' = [tasks EXCEPT ![t] = Settle(t, "DriverError", c.log)]
            /\ UNCHANGED <<handles, dbs>>
       ELSE IF ~ensureRegistryTable
       THEN /\ tasks' = [tasks EXCEPT ![t] = Settle(t, "RegistryMissing", c.log)]
            /\ UNCHANGED <<handles, dbs>>
       ELSE IF isSqliteClient(cfg.client)
       THEN /\ CanOpen
            /\ dbs' = dbs \cup {c.id}
            /\ handles' = Append(handles, Handle("temp", c.id, normalizePassword(c.pw), t))
            /\ tasks' = [tasks EXCEPT ![t].pc = AfterTenantKnex,
                                      ![t].h2 = Len(handles) + 1,
                                      ![t].log = c.log \o <<"createdb", "tenantKnex">>]
       ELSE IF isPostgresClient(cfg.client) \/ isMysqlClient(cfg.client)
               \/ isMssqlClient(cfg.client)
       THEN /\ CanOpen
            /\ handles' = Append(handles, Handle("admin", "-", NoPw, t))
            /\ tasks' = [tasks EXCEPT
                  ![t].pc = IF isMssqlClient(cfg.client) THEN "cr_mscreate" ELSE "cr_check",
                  ![t].h = Len(handles) + 1,
                  ![t].log = Append(c.log, "admin")]
            /\ UNCHANGED dbs
       ELSE \* unsupported client: throw inside try, finally { await admin.destroy() }
            /\ CanOpen
            /\ handles' = Append(handles, Closed)
            /\ tasks' = [tasks EXCEPT ![t] = Settle(t, UnsupportedError(cfg.client), Append(c.log, "admin"))]
            /\ UNCHANGED dbs
    /\ UNCHANGED <<cfg, cache, baseSt, users, registryTable, registry, got, gone>>

\* variant of AdminFail without the finally block: the error leaves the connections open
AdminFail_leak(t, err, log) ==
    /\ handles' = handles
    /\ tasks' = [tasks EXCEPT ![t] = Settle(t, err, log)]

\* leaving the admin try block with an error: finally { await admin.destroy() }, rethrow
AdminFail(t, err, log) ==
    /\ handles' = EndClose(handles, {tasks[t].h, tasks[t].h2} \ {0})
    /\ tasks' = [tasks EXCEPT ![t] = Settle(t, err, log)]

\* leaving the admin try block normally: finally { await admin.destroy() }, then
\* tenantKnex = knex(buildTenantConfig(tenantId, tenantPassword))
AdminDone(t, log) ==
    /\ handles' = Append(EndClose(handles, {tasks[t].h, tasks[t].h2} \ {0}),
                         Handle("temp", tasks[t].id, normalizePassword(tasks[t].pw), t))
    /\ tasks' = [tasks EXCEPT ![t].pc = AfterTenantKnex, ![t].h = 0,
                              ![t].h2 = Len(handles) + 1,
                              ![t].log = Append(log, "tenantKnex")]
    /\ CanOpen

\* variant of createCheck that resumes a provisioning whose database exists
createCheck_resume(t) ==
    /\ UNCHANGED <<calls, tools>>
    /\ tasks[t].pc = "cr_check"
    /\ IF tasks[t].id \in dbs
       THEN AdminDone(t, Append(tasks[t].log, "check"))
       ELSE /\ tasks' = [tasks EXCEPT ![t].pc = "cr_createdb",
                                      ![t].log = Append(tasks[t].log, "check")]
            /\ UNCHANGED handles
    /\ UNCHANGED <<cfg, cache, baseSt, dbs, users, registryTable, registry, got, gone>>

\* variant of createCheck that does not look at the rows of the existence query
createCheck_noTest(t) ==
    /\ UNCHANGED <<calls, tools>>
    /\ tasks[t].pc = "cr_check"
    /\ tasks' = [tasks EXCEPT ![t].pc = "cr_createdb", ![t].log = Append(tasks[t].log, "check")]
    /\ UNCHANGED <<cfg, cache, handles, baseSt, dbs, users, registryTable, registry, got, gone>>

\* Postgres / MySQL: the existence query answered
createCheck(t) ==
    LET c == tasks[t] IN
    /\ UNCHANGED <<calls, tools>>
    /\ c.pc = "cr_check"
    /\ \E fault \in BOOLEAN :
         IF fault THEN AdminFail(t, "DriverError", c.log)
         ELSE IF c.id \in dbs THEN AdminFail(t, "AlreadyExists", Append(c.log, "check"))
         ELSE /\ tasks' = [tasks EXCEPT ![t].pc = "cr_createdb",
                                        ![t].log = Append(c.log, "check")]
              /\ UNCHANGED handles
    /\ UNCHANGED <<cfg, cache, baseSt, dbs, users, registryTable, registry, got, gone>>

\* Postgres / MySQL: CREATE DATABASE answered
createDatabase(t) ==
    LET c == tasks[t] IN
    /\ UNCHANGED <<calls, tools>>
    /\ c.pc = "cr_createdb"
    /\ \E fault \in BOOLEAN :
         IF fault
         THEN AdminFail(t, "DriverError", c.log) /\ UNCHANGED dbs
         ELSE IF c.id \in dbs
         THEN AdminFail(t, "DriverError: database exists", c.log) /\ UNCHANGED dbs
         ELSE /\ dbs' = dbs \cup {c.id}
              /\ IF wantsUser(c.pw)
                 THEN /\ tasks' = [tasks EXCEPT ![t].pc = "cr_user",
                                                ![t].log = Append(c.log, "createdb")]
                      /\ UNCHANGED handles
                 ELSE AdminDone(t, Append(c.log, "createdb"))
    /\ UNCHANGED <<cfg, cache, baseSt, users, registryTable, registry, got, gone>>

\* Postgres / MySQL: CREATE USER, then GRANT ALL PRIVILEGES
createUser(t) ==
    LET c == tasks[t] IN
    /\ UNCHANGED <<calls, tools>>
    /\ c.pc = "cr_user"
    /\ \E fault \in {"none", "user", "grant"} :
         IF fault = "user" \/ (isPostgresClient(cfg.client) /\ c.id \in users)
         THEN AdminFail(t, "DriverError", c.log) /\ UNCHANGED users
         ELSE /\ users' = users \cup {c.id}
              /\ IF fault = "grant"
                 THEN AdminFail(t, "DriverError", Append(c.log, "user"))
                 ELSE AdminDone(t, c.log \o <<"user", "grant">>)
    /\ UNCHANGED <<cfg, cache, baseSt, dbs, registryTable, registry, got, gone>>

\* variant of createMssqlDatabase whose CREATE DATABASE has no DB_ID(...) IS NULL guard
createMssqlDatabase_unguarded(t) ==
    /\ UNCHANGED <<calls, tools>>
    /\ tasks[t].pc = "cr_mscreate"
    /\ IF tasks[t].id \in dbs
       THEN AdminFail(t, "DriverError: database exists", tasks[t].log) /\ UNCHANGED dbs
       ELSE /\ dbs' = dbs \cup {tasks[t].id}
            /\ IF wantsUser(tasks[t].pw)
               THEN /\ tasks' = [tasks EXCEPT ![t].pc = "cr_mslogin",
                                              ![t].log = Append(tasks[t].log, "createdb")]
                    /\ UNCHANGED handles
               ELSE AdminDone(t, Append(tasks[t].log, "createdb"))
    /\ UNCHANGED <<cfg, cache, baseSt, users, registryTable, registry, got, gone>>

\* SQL Server: IF DB_ID(...) IS NULL CREATE DATABASE answered
createMssqlDatabase(t) ==
    LET c == tasks[t] IN
    /\ UNCHANGED <<calls, tools>>
    /\ c.pc = "cr_mscreate"
    /\ \E fault \in BOOLEAN :
         IF fault
         THEN AdminFail(t, "DriverError", c.log) /\ UNCHANGED dbs
         ELSE /\ dbs' = dbs \cup {c.id}
              /\ IF wantsUser(c.pw)
                 THEN /\ tasks' = [tasks EXCEPT ![t].pc = "cr_mslogin",
                                                ![t].log = Append(c.log, "createdb")]
                      /\ UNCHANGED handles
                 ELSE AdminDone(t, Append(c.log, "createdb"))
    /\ UNCHANGED <<cfg, cache, baseSt, users, registryTable, registry, got, gone>>

\* SQL Server: CREATE LOGIN answered; tenantAdmin = knex(...) against the tenant database
createMssqlLogin(t) ==
    LET c == tasks[t] IN
    /\ UNCHANGED <<calls, tools>>
    /\ c.pc = "cr_mslogin"
    /\ \E fault \in BOOLEAN :
         IF fault
         THEN AdminFail(t, "DriverError", c.log) /\ UNCHANGED users
         ELSE /\ CanOpen
              /\ users' = users \cup {c.id}
              /\ handles' = Append(handles, Handle("tenantAdmin", c.id, NoPw, t))
              /\ tasks' = [tasks EXCEPT ![t].pc = "cr_msuser", ![t].h2 = Len(handles) + 1,
                                        ![t].log = c.log \o <<"user", "tenantAdmin">>]
    /\ UNCHANGED <<cfg, cache, baseSt, dbs, registryTable, registry, got, gone>>

\* SQL Server: CREATE USER ... FOR LOGIN and sp_addrolemember on tenantAdmin, then
\* finally { await tenantAdmin.destroy() } and the outer finally
createMssqlUser(t) ==
    LET c == tasks[t] IN
    /\ UNCHANGED <<calls, tools>>
    /\ c.pc = "cr_msuser"
    /\ \E fault \in BOOLEAN :
         IF fault THEN AdminFail(t, "DriverError", c.log)
         ELSE AdminDone(t, Append(c.log, "grant"))
    /\ UNCHANGED <<cfg, cache, baseSt, dbs, users, registryTable, registry, got, gone>>

\* tenantKnex.migrate.latest() answered
createMigrate(t) ==
    LET c == tasks[t] IN
    /\ UNCHANGED <<calls, tools>>
    /\ c.pc = "cr_migrate"
    /\ \E fault \in BOOLEAN :
         IF fault
         THEN tasks' = [tasks EXCEPT ![t].pc = "cr_release", ![t].err = "DriverError"]
         ELSE tasks' = [tasks EXCEPT ![t].log = Append(c.log, "migrate"),
                                     ![t].pc = IF cfg.seedsDir THEN "cr_seed" ELSE "cr_release"]
    /\ UNCHANGED <<cfg, cache, handles, baseSt, dbs, users, registryTable, registry, got, gone>>

\* tenantKnex.seed.run() answered
createSeed(t) ==
    LET c == tasks[t] IN
    /\ UNCHANGED <<calls, tools>>
    /\ c.pc = "cr_seed"
    /\ \E fault \in BOOLEAN :
         IF fault
         THEN tasks' = [tasks EXCEPT ![t].pc = "cr_release", ![t].err = "DriverError"]
         ELSE tasks' = [tasks EXCEPT ![t].log = Append(c.log, "seed"), ![t].pc = "cr_release"]
    /\ UNCHANGED <<cfg, cache, handles, baseSt, dbs, users, registryTable, registry, got, gone>>

\* variant of createRelease without cache.delete(tenantId)
createRelease_keepCache(t) ==
    /\ UNCHANGED <<calls, tools>>
    /\ tasks[t].pc = "cr_release"
    /\ handles' = EndClose(handles, {tasks[t].h2})
    /\ tasks' = [tasks EXCEPT ![t] =
          IF tasks[t].err # "" THEN Settle(t, tasks[t].err, Append(tasks[t].log, "release"))
          ELSE [tasks[t] EXCEPT !.pc = "cr_upsert", !.h2 = 0,
                                !.log = Append(tasks[t].log, "release"),
                                !.mark = Len(handles)]]
    /\ UNCHANGED <<cfg, cache, baseSt, dbs, users, registryTable, registry, got, gone>>

\* variant of createRelease that writes the registry row before it releases
createRelease_persistFirst(t) ==
    /\ UNCHANGED <<calls, tools>>
    /\ tasks[t].pc = "cr_release"
    /\ handles' = EndClose(handles, {tasks[t].h2})
    /\ cache' = [cache EXCEPT ![tasks[t].id] = 0]
    /\ got' = [got EXCEPT ![tasks[t].id] = NoGet]
    /\ registry' = [registry EXCEPT ![tasks[t].id] =
                       IF tasks[t].err = "" THEN upsertTenantInRegistry(@, tasks[t].pw) ELSE @]
    /\ tasks' = [tasks EXCEPT ![t] =
          IF tasks[t].err # "" THEN Settle(t, tasks[t].err, Append(tasks[t].log, "release"))
          ELSE [tasks[t] EXCEPT !.pc = "cr_upsert", !.h2 = 0,
                                !.log = tasks[t].log \o <<"registry", "release">>,
                                !.mark = Len(handles)]]
    /\ UNCHANGED <<cfg, baseSt, dbs, users, registryTable, gone>>

\* variant of createRelease that swallows the error of the try block
createRelease_goOn(t) ==
    /\ UNCHANGED <<calls, tools>>
    /\ tasks[t].pc = "cr_release"
    /\ handles' = EndClose(handles, {tasks[t].h2})
    /\ cache' = [cache EXCEPT ![tasks[t].id] = 0]
    /\ got' = [got EXCEPT ![tasks[t].id] = NoGet]
    /\ tasks' = [tasks EXCEPT ![t].pc = "cr_upsert", ![t].h2 = 0, ![t].err = "",
                              ![t].log = Append(tasks[t].log, "release"),
                              ![t].mark = Len(handles)]
    /\ UNCHANGED <<cfg, baseSt, dbs, users, registryTable, registry, gone>>

\* variant of createRelease that empties the cache instead of deleting one entry
createRelease_clearAll(t) ==
    /\ UNCHANGED <<calls, tools>>
    /\ tasks[t].pc = "cr_release"
    /\ handles' = EndClose(handles, {tasks[t].h2})
    /\ cache' = [id \in Tenants |-> 0]
    /\ got' = [got EXCEPT ![tasks[t].id] = NoGet]
    /\ tasks' = [tasks EXCEPT ![t] =
          IF tasks[t].err # "" THEN Settle(t, tasks[t].err, Append(tasks[t].log, "release"))
          ELSE [tasks[t] EXCEPT !.pc = "cr_upsert", !.h2 = 0,
                                !.log = Append(tasks[t].log, "release"),
                                !.mark = Len(handles)]]
    /\ UNCHANGED <<cfg, baseSt, dbs, users, registryTable, registry, gone>>

\* finally { await tenantKnex.destroy(); cache.delete(tenantId); }, then rethrow or
\* go on to upsertTenantInRegistry
createRelease(t) ==
    LET c == tasks[t] IN
    /\ UNCHANGED <<calls, tools>>
    /\ c.pc = "cr_release"
    /\ handles' = EndClose(handles, {c.h2})
    /\ cache' = [cache EXCEPT ![c.id] = 0]
    /\ got' = [got EXCEPT ![c.id] = NoGet]
    /\ tasks' = [tasks EXCEPT ![t] =
          IF c.err # "" THEN Settle(t, c.err, Append(c.log, "release"))
          ELSE [c EXCEPT !.pc = "cr_upsert", !.h2 = 0, !.log = Append(c.log, "release"),
                         !.mark = Len(handles)]]
    /\ UNCHANGED <<cfg, baseSt, dbs, users, registryTable, registry, gone>>

\* await upsertTenantInRegistry(baseClient, resolved, tenantId, password)
createUpsert(t) ==
    LET c == tasks[t] IN
    /\ UNCHANGED <<calls, tools>>
    /\ c.pc = "cr_upsert"
    /\ \E fault \in BOOLEAN :
         IF fault \/ baseSt # "open"
         THEN /\ tasks' = [tasks EXCEPT ![t] = Settle(t, "DriverError", c.log)]
              /\ UNCHANGED registry
         ELSE IF ~ensureRegistryTable
         THEN /\ tasks' = [tasks EXCEPT ![t] = Settle(t, "RegistryMissing", c.log)]
              /\ UNCHANGED registry
         ELSE /\ registry' = [registry EXCEPT ![c.id] = upsertTenantInRegistry(@, c.pw)]
              /\ tasks' = [tasks EXCEPT ![t] = Settle(t, "", Append(c.log, "registry"))]
    /\ UNCHANGED <<cfg, cache, handles, baseSt, dbs, users, registryTable, got, gone>>

\* the caller has seen the settled promise; the slot is free again
createReturn(t) ==
    /\ UNCHANGED <<calls, tools>>
    /\ tasks[t].pc = "done"
    /\ tasks' = [tasks EXCEPT ![t] = NoTask]
    /\ UNCHANGED <<cfg, cache, handles, baseSt, dbs, users, registryTable, registry, got, gone>>

Next ==
    \/ \E id \in Tenants, pw \in PwArgs : getTenant(id, pw)
    \/ \E t \in Tasks, id \in Tenants : destroyTenantCall(t, id)
    \/ \E t \in Tasks : destroyTenantResume(t)
    \/ \E t \in Tasks : destroyAllCall(t)
    \/ \E t \in Tasks : destroyAllClear(t)
    \/ \E t \in Tasks : destroyAllResume(t)
    \/ \E t \in Tasks, id \in NewTenants, pw \in PwArgs : createTenantDbCall(t, id, pw)
    \/ \E t \in Tasks : createAfterRegistry(t)
    \/ \E t \in Tasks : createCheck(t)
    \/ \E t \in Tasks : createDatabase(t)
    \/ \E t \in Tasks : createUser(t)
    \/ \E t \in Tasks : createMssqlDatabase(t)
    \/ \E t \in Tasks : createMssqlLogin(t)
    \/ \E t \in Tasks : createMssqlUser(t)
    \/ \E t \in Tasks : createMigrate(t)
    \/ \E t \in Tasks : createSeed(t)
    \/ \E t \in Tasks : createRelease(t)
    \/ \E t \in Tasks : createUpsert(t)
    \/ \E t \in Tasks : createReturn(t)

Spec == Init /\ [][Next]_vars

(* ================================ claims ================================ *)

\* handles getTenant created for id that are open
OpenTenantHandles(id) ==
    {h \in HandleIds : handles[h].kind = "tenant" /\ handles[h].tenant = id
                       /\ handles[h].st = "open"}

\* C1: in every reachable state there is at most one live connection handle per
\* tenant id (counted here: the instances getTenant created that are open, no close
\* started)
C1_AtMostOneLiveHandle == \A id \in Tenants : Cardinality(OpenTenantHandles(id)) <= 1

\* C2: a getTenant(id, pw) call that follows a getTenant(id, ...) call with no destroy
\* of id in between returns the same instance, for every pw, and creates no instance
C2_GetTenantIdempotent ==
    [][\A id \in Tenants :
          (got[id].h # 0 /\ \E pw \in PwArgs : getTenant(id, pw))
          => (Returned(id)' = got[id].h /\ handles' = handles)]_vars

\* C2 witness: the latest getTenant(id, pw) returned an instance that an earlier call
\* had opened with another password
C2_Witness ==
    \E id \in Tenants :
        /\ got[id].h # 0
        /\ handles[got[id].h].st = "open"
        /\ handles[got[id].h].pw # got[id].pw

\* C3: once destroyTenant(id) has completed, the instance it destroyed is closed, and
\* the next getTenant(id) creates an instance and returns it, not the destroyed one
C3_FreshAfterDestroy ==
    /\ [](\A id \in Tenants :
             gone[id].h # 0 => /\ handles[gone[id].h].st = "closed"
                               /\ gone[id].next # gone[id].h)
    /\ [][\A id \in Tenants :
             (gone[id].h # 0 /\ gone[id].next = 0 /\ \E pw \in PwArgs : getTenant(id, pw))
             => /\ Len(handles') = Len(handles) + 1
                /\ Returned(id)' = Len(handles')
                /\ handles'[Returned(id)'].st = "open"]_vars

\* C3 witness: destroyTenant(id) completed and a later getTenant(id) returned an instance
C3_Witness == \E id \in Tenants : gone[id].h # 0 /\ gone[id].next # 0

\* C4: destroyTenant(id) closes and evicts exactly the instance cached under id: the
\* entry it removes is of id and closed, no other entry and no other instance changes,
\* the base handle is untouched, and for an uncached id nothing changes
C4_DestroyTenantExact ==
    [][\A t \in Tasks :
          /\ destroyTenantResume(t) =>
               /\ \A i \in Tenants :
                     cache'[i] # cache[i]
                     => i = tasks[t].id /\ handles'[cache[i]].st = "closed"
               /\ \A h \in HandleIds : h # tasks[t].h => handles'[h] = handles[h]
               /\ baseSt' = baseSt
          /\ \A id \in Tenants :
               (destroyTenantCall(t, id) /\ cache[id] = 0)
               => (cache' = cache /\ handles' = handles /\ tasks' = tasks)]_vars

\* C5: destroyAll starts closing the base handle only when every cached tenant
\* instance is closed and the cache is empty; when it completes the cache is empty
\* and the base handle is closed
C5_DestroyAllOrder ==
    [][\A t \in Tasks :
          /\ destroyAllClear(t) =>
               /\ \A i \in Tenants : cache[i] # 0 => handles'[cache[i]].st = "closed"
               /\ \A i \in Tenants : cache'[i] = 0
          /\ destroyAllResume(t) =>
               /\ \A i \in Tenants : cache'[i] = 0
               /\ baseSt' = "closed"]_vars

(* --------------------------- createTenantDb claims ---------------------- *)

Range(q) == {q[i] : i \in DOMAIN q}

\* a createTenantDb call in slot t, started and not yet handed back to its caller
Created(t) == tasks[t].op = "createTenantDb"

Terminated(t) == Created(t) /\ tasks[t].pc = "done"

\* C6: whenever a createTenantDb call has terminated, with or without an error, no
\* admin, tenantAdmin or temporary tenant connection it created is left unclosed:
\* every unclosed connection of these kinds belongs to a call that is still running
\* and still holds it
C6_ConnectionsReleased ==
    \A h \in HandleIds :
        handles[h].kind \in {"admin", "tenantAdmin", "temp"}
        => /\ Running(handles[h].owner)
           /\ h \in {tasks[handles[h].owner].h, tasks[handles[h].owner].h2}

\* C6 witness: a call that created the admin and the tenantAdmin connection has
\* terminated with an error, and no connection of createTenantDb is unclosed
C6_Witness ==
    \E t \in Tasks :
        /\ Terminated(t) /\ tasks[t].err # ""
        /\ {"admin", "tenantAdmin"} \subseteq Range(tasks[t].log)
        /\ \A h \in HandleIds : handles[h].kind \in {"tenant", "-"}

\* what a call for a database that exists may have done when it terminates
C7_AllowedLogs == {<<>>, <<"admin">>, <<"admin", "check">>}

\* C7: on Postgres and MySQL a createTenantDb(id) call made while the database of id
\* exists terminates with an error, having issued no CREATE DATABASE, CREATE USER,
\* migration or seed; when its existence query was answered the error is "already
\* exists"; and no step of the call changes the databases, the users or the registry
C7_ExistingDatabaseRejected ==
    /\ [](\A t \in Tasks :
             (Terminated(t) /\ tasks[t].dbAtStart
              /\ (isPostgresClient(cfg.client) \/ isMysqlClient(cfg.client)))
             => /\ tasks[t].err # ""
                /\ tasks[t].log \in C7_AllowedLogs
                /\ "check" \in Range(tasks[t].log) => tasks[t].err = "AlreadyExists"
                /\ tasks[t].id \in dbs)
    /\ [][\A t \in Tasks :
             (Created(t) /\ tasks[t].dbAtStart /\ tasks'[t] # tasks[t]
              /\ (isPostgresClient(cfg.client) \/ isMysqlClient(cfg.client)))
             => (dbs' = dbs /\ users' = users /\ registry' = registry)]_vars

\* C7 witness: a second call for a registered tenant with a stored credential has
\* failed with "already exists"
C7_Witness ==
    \E t \in Tasks :
        /\ Terminated(t) /\ tasks[t].dbAtStart /\ tasks[t].err = "AlreadyExists"
        /\ registry[tasks[t].id].present
        /\ registry[tasks[t].id].encrypted # NoPw

\* C8: a createTenantDb call made while the registry table is missing terminates with
\* an error having created no connection, database, file or user; the error is the
\* registry-missing error when the base handle answered hasTable; and no step creates
\* the registry table
C8_RegistryMissingFailsFast ==
    /\ [](\A t \in Tasks :
             (Terminated(t) /\ ~tasks[t].regAtStart)
             => /\ tasks[t].log = <<>>
                /\ tasks[t].err # ""
                /\ baseSt = "open" => tasks[t].err = "RegistryMissing")
    /\ [](~registryTable => (dbs = {} /\ users = {}
                             /\ \A t \in Tasks : Created(t) => tasks[t].log = <<>>))
    /\ [][registryTable' = registryTable]_vars

\* C8 witness: a call has failed with the registry-missing error
C8_Witness ==
    \E t \in Tasks :
        Terminated(t) /\ ~tasks[t].regAtStart /\ tasks[t].err = "RegistryMissing"

\* what a createTenantDb(id, pw) call has done, in order, when it goes on to the
\* registry write: the steps of its client, then migrations and seeds if configured
StepsBeforeRegistry(pw) ==
    LET user == IF wantsUser(pw) THEN <<"user", "grant">> ELSE <<>>
        msuser == IF wantsUser(pw) THEN <<"user", "tenantAdmin", "grant">> ELSE <<>>
        create == IF isSqliteClient(cfg.client) THEN <<"createdb">>
                  ELSE IF isMssqlClient(cfg.client) THEN <<"admin", "createdb">> \o msuser
                  ELSE <<"admin", "check", "createdb">> \o user
        migrate == IF cfg.migrationsDir THEN <<"migrate">> ELSE <<>>
        seed == IF cfg.seedsDir THEN <<"seed">> ELSE <<>>
    IN  create \o <<"tenantKnex">> \o migrate \o seed \o <<"release">>

\* C9: the registry row changes only in the registry write of a call whose database
\* creation, user creation and grant (when a password is given), migrations and seeds
\* (when configured) have all succeeded; a call that terminates with an error has not
\* written the row; and once a step of a call has failed the call runs nothing more
\* than the release of its tenant connection
C9_RegistryWrittenLast ==
    /\ [][registry' # registry
          => \E t \in Tasks :
                /\ createUpsert(t)
                /\ tasks[t].log = StepsBeforeRegistry(tasks[t].pw)
                /\ \A id \in Tenants : registry'[id] # registry[id] => id = tasks[t].id]_vars
    /\ [](\A t \in Tasks :
             (Terminated(t) /\ tasks[t].err # "") => "registry" \notin Range(tasks[t].log))
    /\ [](\A t \in Tasks :
             (Terminated(t) /\ tasks[t].err = "")
             => tasks[t].log = Append(StepsBeforeRegistry(tasks[t].pw), "registry"))
    /\ [][\A t \in Tasks :
             (Created(t) /\ tasks[t].err # "" /\ Created(t)' /\ tasks'[t] # tasks[t])
             => (tasks'[t].log \in {tasks[t].log, Append(tasks[t].log, "release")}
                 /\ tasks'[t].err = tasks[t].err
                 /\ dbs' = dbs /\ users' = users /\ registry' = registry)]_vars

\* C9 witness: a call whose database was created failed in a migration or seed and has
\* terminated, and the tenant has no registry row
C9_Witness ==
    \E t \in Tasks :
        /\ Terminated(t) /\ tasks[t].err # ""
        /\ "tenantKnex" \in Range(tasks[t].log)
        /\ tasks[t].id \in dbs
        /\ ~registry[tasks[t].id].present

\* the errors a call can end with when no statement fails for a reason other than
\* the state of the databases
NoFaultErrors == {"", "AlreadyExists", "DriverError: database exists"}

\* C10: when two createTenantDb(id) calls on Postgres or MySQL overlap, the database
\* of id not existing when either started, and both have terminated with no failure
\* other than the other call's effect, then one has completed, the other has failed
\* with the factory's "already exists" error, the database exists and the tenant is
\* registered
C10_ConcurrentCreateExclusive ==
    \A t, u \in Tasks :
        (/\ t # u /\ Terminated(t) /\ Terminated(u)
         /\ tasks[t].id = tasks[u].id
         /\ tasks[t].conc /\ tasks[u].conc
         /\ ~tasks[t].dbAtStart /\ ~tasks[u].dbAtStart
         /\ isPostgresClient(cfg.client) \/ isMysqlClient(cfg.client)
         /\ tasks[t].err \in NoFaultErrors /\ tasks[u].err \in NoFaultErrors
         /\ baseSt = "open")
        => /\ {tasks[t].err, tasks[u].err} = {"", "AlreadyExists"}
           /\ tasks[t].id \in dbs
           /\ registry[tasks[t].id].present

(* ------------------ registry collisions, shutdown, dialects ------------- *)

\* C14 as stated: a createTenantDb call that reaches its registry write while the
\* registry holds a row for id fails with "already exists" and leaves the row as it was
C14_RowCollisionRejected ==
    [][\A t \in Tasks :
          (createUpsert(t) /\ registry[tasks[t].id].present)
          => (tasks'[t].err = "AlreadyExists" /\ registry' = registry)]_vars

\* C14: a registry row for id never makes createTenantDb fail: a registry write that
\* finds a row fails only when the statement itself fails, and otherwise succeeds and
\* leaves one row for id that holds the credential of a password given to this call;
\* "already exists" is raised only by the Postgres / MySQL existence query for a
\* database that exists
C14_RowCollisionMerged ==
    /\ [][\A t \in Tasks :
             (createUpsert(t) /\ registry[tasks[t].id].present)
             => LET old == registry[tasks[t].id]
                    new == registry'[tasks[t].id]
                    pw == tasks[t].pw
                IN  /\ tasks'[t].err \in {"", "DriverError"}
                    /\ tasks'[t].err # "" => new = old
                    /\ tasks'[t].err = "" =>
                         /\ new.present
                         /\ (Truthy(pw) /\ cfg.encryptPassword)
                              => new.encrypted = "enc:" \o pw
                         /\ (Truthy(pw) /\ ~cfg.encryptPassword)
                              => new.password = pw]_vars
    /\ [](\A t \in Tasks :
             (Created(t) /\ tasks[t].err = "AlreadyExists")
             => /\ isPostgresClient(cfg.client) \/ isMysqlClient(cfg.client)
                /\ tasks[t].id \in dbs
                /\ tasks[t].log = <<"admin", "check">>)

\* C14 witness: a call with a password for a tenant that was registered without one
\* has succeeded, and the row holds the call's credential
C14_Witness ==
    \E t \in Tasks :
        /\ Terminated(t) /\ tasks[t].err = "" /\ tasks[t].rowAtStart
        /\ Truthy(tasks[t].pw)
        /\ registry[tasks[t].id].present
        /\ registry[tasks[t].id].password = tasks[t].pw

\* C15: once destroyAll has completed (the base handle is closed) a getTenant call
\* creates no instance and caches nothing
C15_UnusableAfterDestroyAll ==
    [][\A id \in Tenants :
          (baseSt = "closed" /\ \E pw \in PwArgs : getTenant(id, pw))
          => (handles' = handles /\ cache' = cache)]_vars

\* a client outside the Postgres, MySQL, SQLite and SQL Server families
AliasTable ==
    {"pg", "postgres", "postgresql", "mysql", "mysql2", "mariadb",
     "sqlite3", "better-sqlite3", "sqlite", "mssql", "sqlserver"}

OtherClient == cfg.client \notin AliasTable

\* C16: for a client outside the four families a createTenantDb call that got past the
\* registry check terminates with the unsupported-client error naming the client,
\* having created only the admin connection, which is closed; no database, user or
\* registry row exists; and getTenant for an uncached id creates and returns an open
\* instance
C16_UnsupportedClient ==
    /\ [](OtherClient =>
            /\ dbs = {} /\ users = {}
            /\ \A id \in Tenants : ~registry[id].present
            /\ \A h \in HandleIds : handles[h].kind \in {"tenant", "-"}
            /\ \A t \in Tasks :
                  Terminated(t) =>
                     \/ tasks[t].err = "Unsupported: " \o cfg.client
                           /\ tasks[t].log = <<"admin">>
                     \/ tasks[t].err = "DriverError" /\ tasks[t].log = <<>>)
    /\ [][\A id \in Tenants :
             (OtherClient /\ cache[id] = 0 /\ \E pw \in PwArgs : getTenant(id, pw))
             => /\ Len(handles') = Len(handles) + 1
                /\ Returned(id)' = Len(handles')
                /\ handles'[Returned(id)'].st = "open"]_vars

\* C16 witness: createTenantDb has failed with the unsupported-client error and
\* getTenant has returned an open instance under the same configuration
C16_Witness ==
    /\ OtherClient
    /\ \E t \in Tasks : Terminated(t) /\ tasks[t].err = "Unsupported: " \o cfg.client
    /\ \E id \in Tenants : got[id].h # 0 /\ handles[got[id].h].st = "open"

\* C17: on SQLite and SQL Server a createTenantDb(id) call made while the database of
\* id exists never fails on that account (it ends without error or with the error of
\* a statement that failed for another reason); when it has succeeded the database
\* exists and the tenant is registered
C17_IdempotentDialects ==
    \A t \in Tasks :
        (Terminated(t) /\ tasks[t].dbAtStart
         /\ (isSqliteClient(cfg.client) \/ isMssqlClient(cfg.client)))
        => /\ tasks[t].err \in {"", "DriverError"}
           /\ tasks[t].id \in dbs
           /\ tasks[t].err = "" =>
                /\ registry[tasks[t].id].present
                /\ tasks[t].log = Append(StepsBeforeRegistry(tasks[t].pw), "registry")

\* C17 witness: on SQL Server a second call for a tenant that is registered has succeeded
C17_Witness ==
    \E t \in Tasks :
        /\ isMssqlClient(cfg.client)
        /\ Terminated(t) /\ tasks[t].dbAtStart /\ tasks[t].err = ""
        /\ tasks[t].rowAtStart

(* ======================================================================== *)
(* Registry table, stored credentials, tenant connection settings and the   *)
(* bootstrap migration: the helpers the CLI commands call around a manager. *)
(* ======================================================================== *)

\* helper calls per behaviour that change the table, the directory or the options
MaxOps == 3

\* the manager's own state, which the helpers leave alone
manager == <<cache, handles, baseSt, dbs, users, registryTable, registry, tasks, got, gone>>

\* password arguments: omitted, the empty string, two different strings
ToolPwArgs == PwArgs \cup {"", "p2"}

\* base.connection: not given, or an object with some of the fields user, password,
\* database, filename (NoPw = the field is not there)
NoConnection ==
    [given |-> FALSE, user |-> NoPw, password |-> NoPw, database |-> NoPw, filename |-> NoPw]

Connections ==
    { NoConnection,
      [given |-> TRUE, user |-> "conn_user", password |-> "connpw", database |-> "conn_db",
       filename |-> NoPw],
      [given |-> TRUE, user |-> NoPw, password |-> NoPw, database |-> "stray_db",
       filename |-> "conn/base.sqlite"],
      [given |-> TRUE, user |-> NoPw, password |-> NoPw, database |-> "conn_db",
       filename |-> NoPw] }

\* options of the factory: base.user, base.database, base.password, base.connection,
\* tenant.userPrefix, tenant.databaseSuffix
BaseOptions ==
    [user : {"base_user"}, database : {"base_db", "data/base.sqlite"},
     password : {NoPw, "basepw"}, connection : Connections,
     userPrefix : {NoPw, "t_"}, databaseSuffix : {NoPw, ".db"}]

\* decrypt side of the options: options.decryptPassword given, TENORA_KEY set
DecryptOptions == [decryptPassword : BOOLEAN, key : BOOLEAN]

\* new Date().toISOString() cut to seconds: two calls may fall into the same second
Times == {"20260101000000", "20260101000001"}

\* directories the CLI may be pointed at
StartDirs ==
    { NoDir,
      [configured |-> TRUE, exists |-> FALSE, entries |-> {}],
      [configured |-> TRUE, exists |-> TRUE, entries |-> {}],
      [configured |-> TRUE, exists |-> TRUE,
       entries |-> {[name |-> "0001_init", ext |-> "js", marker |-> FALSE],
                    [name |-> "notes", ext |-> "md", marker |-> FALSE]}],
      [configured |-> TRUE, exists |-> TRUE,
       entries |-> {[name |-> "0002_registry", ext |-> "ts", marker |-> TRUE]}] }

\* the options the helpers are called with: one configuration with an encryption
\* hook in effect and one without
HelperConfigs == {c \in Configs : c.client \in {"pg", "mysql2"}}

RegistryInit ==
    /\ cfg \in HelperConfigs
    /\ registryTable = TRUE
    /\ cache = [id \in Tenants |-> 0]
    /\ handles = <<>>
    /\ baseSt = "open"
    /\ dbs = {}
    /\ users = {}
    /\ registry = [id \in Tenants |-> NoRow]
    /\ tasks = [t \in Tasks |-> NoTask]
    /\ got = [id \in Tenants |-> NoGet]
    /\ gone = [id \in Tenants |-> NoGone]
    /\ calls = 0
    /\ table = <<>>
    /\ files \in StartDirs
    /\ out = NoOut
    /\ hist = NoHist

(* ----------------------------- registry table --------------------------- *)

\* a row of the table as the columns upsertTenantInRegistry sees
columnsOf(r) == [present |-> TRUE, password |-> r.password, encrypted |-> r.encrypted]

tableRow(id, row) == [id |-> id, password |-> row.password, encrypted |-> row.encrypted]

\* variant of insertOnConflictMerge: a plain insert on a table without a key on id
insertOnConflictMerge_insert(tbl, id, pw) ==
    Append(tbl, tableRow(id, upsertTenantInRegistry(NoRow, pw)))

\* base(table).insert(record).onConflict(idColumn).merge(record)
insertOnConflictMerge(tbl, id, pw) ==
    IF \E i \in DOMAIN tbl : tbl[i].id = id
    THEN [i \in DOMAIN tbl |->
            IF tbl[i].id = id
            THEN tableRow(id, upsertTenantInRegistry(columnsOf(tbl[i]), pw))
            ELSE tbl[i]]
    ELSE Append(tbl, tableRow(id, upsertTenantInRegistry(NoRow, pw)))

\* the options of the next helper call differ (another config file, TENORA_KEY set or unset)
configure(c) ==
    /\ calls < MaxOps /\ calls' = calls + 1
    /\ c # cfg
    /\ cfg' = c
    /\ out' = [op |-> "configure"]
    /\ UNCHANGED <<manager, table, files, hist>>

\* upsertTenantInRegistry(base, options, tenantId, password)
upsert(id, pw) ==
    /\ calls < MaxOps /\ calls' = calls + 1
    /\ IF ~ensureRegistryTable
       THEN out' = [op |-> "upsert", id |-> id, err |-> "RegistryMissing"]
            /\ UNCHANGED <<table, hist>>
       ELSE /\ table' = insertOnConflictMerge(table, id, pw)
            /\ out' = [op |-> "upsert", id |-> id, err |-> ""]
            /\ hist' = [hist EXCEPT !.ups[id] =
                          Append(@, [pw |-> pw, hook |-> cfg.encryptPassword,
                                     row |-> tableRow(id, upsertTenantInRegistry(NoRow, pw))])]
    /\ UNCHANGED <<manager, cfg, files>>

(* -------------------------- reading a credential ------------------------ *)

\* resolveDecrypt: options.decryptPassword, else the TENORA_KEY default, else undefined
resolveDecrypt(o) ==
    IF o.decryptPassword THEN "hook" ELSE IF o.key THEN "key" ELSE "none"

\* resolver(tenant.encryptedPassword): the plaintext, and which resolver produced it
decrypt(resolver, encrypted) ==
    resolver \o ":" \o (CHOOSE p \in {"s3cret", "p2"} : encrypt(p) = encrypted)

\* a column value that is neither NULL nor the empty string
Present(v) == v # NoPw /\ v # ""

\* cli/config.ts getTenantPassword(tenant, decryptPassword, cfg); the commands
\* pass cfg.decryptPassword and cfg
getTenantPassword(tenant, o) ==
    IF Present(tenant.password) THEN tenant.password
    ELSE IF Present(tenant.encryptedPassword)
    THEN LET resolver == IF o.decryptPassword THEN "hook" ELSE resolveDecrypt(o)
         IN  IF resolver # "none" THEN decrypt(resolver, tenant.encryptedPassword)
             ELSE NoPw
    ELSE NoPw

\* src/cli.ts getTenantPassword(tenant, decryptPassword); the commands pass
\* cfg.decryptPassword
cliGetTenantPassword(tenant, o) ==
    IF Present(tenant.password) THEN tenant.password
    ELSE IF Present(tenant.encryptedPassword) /\ o.decryptPassword
    THEN decrypt("hook", tenant.encryptedPassword)
    ELSE NoPw

\* rows a registry table can hold: each column NULL, empty, or a value
TenantRecords ==
    [id : {"a"}, password : {NoPw, "", "s3cret"},
     encryptedPassword : {NoPw, "", encrypt("s3cret"), encrypt("p2")}]

\* a row listed from the registry and the options of the CLI run that reads it
PasswordInit ==
    /\ out \in [op : {"args"}, tenant : TenantRecords, options : DecryptOptions]
    /\ cfg \in {c \in Configs : c.client = "pg"}
    /\ registryTable = TRUE
    /\ cache = [id \in Tenants |-> 0]
    /\ handles = <<>>
    /\ baseSt = "open"
    /\ dbs = {}
    /\ users = {}
    /\ registry = [id \in Tenants |-> NoRow]
    /\ tasks = [t \in Tasks |-> NoTask]
    /\ got = [id \in Tenants |-> NoGet]
    /\ gone = [id \in Tenants |-> NoGone]
    /\ calls = 0
    /\ table = <<>>
    /\ files = NoDir
    /\ hist = NoHist

\* packages/core CLI: const pwd = getTenantPassword(tenant, cfg.decryptPassword, cfg)
tenantPassword ==
    /\ out.op = "args"
    /\ out' = [op |-> "password", cli |-> "core", tenant |-> out.tenant,
               options |-> out.options,
               pwd |-> getTenantPassword(out.tenant, out.options)]
    /\ UNCHANGED <<manager, cfg, calls, table, files, hist>>

\* src/cli.ts: const pwd = getTenantPassword(tenant, cfg.decryptPassword)
cliTenantPassword ==
    /\ out.op = "args"
    /\ out' = [op |-> "password", cli |-> "src", tenant |-> out.tenant,
               options |-> out.options,
               pwd |-> cliGetTenantPassword(out.tenant, out.options)]
    /\ UNCHANGED <<manager, cfg, calls, table, files, hist>>

PasswordNext ==
    \/ tenantPassword
    \/ cliTenantPassword

PasswordSpec == PasswordInit /\ [][PasswordNext]_vars

(* ----------------------- tenant connection settings --------------------- *)

\* a ?? b
Coalesce(a, b) == IF a # NoPw THEN a ELSE b

\* path.dirname of the base database files in use
dirname(p) ==
    IF p = "data/base.sqlite" THEN "data" ELSE IF p = "conn/base.sqlite" THEN "conn" ELSE "."

\* path.join(dir, name)
join(dir, name) == IF dir = "." THEN name ELSE dir \o "/" \o name

\* resolveBaseDatabaseName: the database (SQLite: the file) of the base connection
resolveBaseDatabaseName(base) ==
    IF base.connection.given
    THEN IF isSqliteClient(cfg.client)
         THEN Coalesce(base.connection.filename, base.database)
         ELSE Coalesce(base.connection.database, base.database)
    ELSE base.database

\* applyConnectionDefaults: base.user and the base password fill what base.connection
\* leaves out
applyConnectionDefaults(base, conn) ==
    [conn EXCEPT !.user = Coalesce(conn.user, base.user),
                 !.password = normalizePassword(Coalesce(conn.password,
                                                         normalizePassword(base.password)))]

\* a connection descriptor: its fields, NoPw for a field that is not there
Descriptor(conn) ==
    [user |-> conn.user, password |-> conn.password, database |-> conn.database,
     filename |-> conn.filename]

\* resolveTenantDatabaseName with no tenant.databaseName configured
resolveTenantDatabaseName(id) == id

\* resolveSqliteTenantFilename with no tenant.databaseName and no tenant.databaseDir:
\* <dir of the base file>/<id><suffix>
resolveSqliteTenantFilename(base, id) ==
    LET baseDir == dirname(resolveBaseDatabaseName(base))
        name == id \o Coalesce(base.databaseSuffix, ".sqlite")
    IN  join(baseDir, name)

\* variant of buildBaseConnection that keeps the database field of base.connection
buildBaseConnection_keepDatabase(base, db) ==
    IF base.connection.given
    THEN LET conn == applyConnectionDefaults(base, base.connection)
         IN  IF isSqliteClient(cfg.client)
             THEN Descriptor([conn EXCEPT !.filename = db])
             ELSE Descriptor([conn EXCEPT !.database = db])
    ELSE IF isSqliteClient(cfg.client)
    THEN Descriptor([NoConnection EXCEPT !.filename = db])
    ELSE Descriptor([NoConnection EXCEPT !.user = base.user,
                                         !.password = normalizePassword(base.password),
                                         !.database = db])

\* buildBaseConnection(databaseOverride): the base settings pointed at another database
buildBaseConnection(base, db) ==
    IF base.connection.given
    THEN LET conn == applyConnectionDefaults(base, base.connection)
         IN  IF isSqliteClient(cfg.client)
             THEN Descriptor([conn EXCEPT !.filename = db, !.database = NoPw])
             ELSE Descriptor([conn EXCEPT !.database = db])
    ELSE IF isSqliteClient(cfg.client)
    THEN Descriptor([NoConnection EXCEPT !.filename = db])
    ELSE Descriptor([NoConnection EXCEPT !.user = base.user,
                                         !.password = normalizePassword(base.password),
                                         !.database = db])

\* variant of tenantConnection that never substitutes the tenant login
tenantConnection_shared(base, id, pw) ==
    buildBaseConnection(base, IF isSqliteClient(cfg.client)
                              THEN resolveSqliteTenantFilename(base, id)
                              ELSE resolveTenantDatabaseName(id))

\* buildTenantConfig(tenantId, password).connection
tenantConnection(base, id, pw) ==
    LET tenantPw == normalizePassword(IF pw # NoPw THEN pw ELSE normalizePassword(base.password))
        hasTenantPassword == pw # NoPw
        tenantDb == IF isSqliteClient(cfg.client) THEN resolveSqliteTenantFilename(base, id)
                    ELSE resolveTenantDatabaseName(id)
        connection == buildBaseConnection(base, tenantDb)
        prefix == IF base.userPrefix # NoPw THEN base.userPrefix ELSE "user_"
    IN  IF ~isSqliteClient(cfg.client) /\ hasTenantPassword
        THEN [connection EXCEPT !.user = prefix \o id, !.password = tenantPw]
        ELSE connection

\* a factory built with some client and base options, and the arguments of one
\* getTenant(id, pw) call on it
ConnectionInit ==
    /\ cfg \in Configs
    /\ out \in [op : {"args"}, base : BaseOptions, id : Tenants, pw : ToolPwArgs]
    /\ registryTable = TRUE
    /\ cache = [id \in Tenants |-> 0]
    /\ handles = <<>>
    /\ baseSt = "open"
    /\ dbs = {}
    /\ users = {}
    /\ registry = [id \in Tenants |-> NoRow]
    /\ tasks = [t \in Tasks |-> NoTask]
    /\ got = [id \in Tenants |-> NoGet]
    /\ gone = [id \in Tenants |-> NoGone]
    /\ calls = 0
    /\ table = <<>>
    /\ files = NoDir
    /\ hist = NoHist

\* the connection settings of baseKnexConfig and those buildTenantConfig builds for
\* the call
buildConfig ==
    /\ out.op = "args"
    /\ out' = [op |-> "config", base |-> out.base, id |-> out.id, pw |-> out.pw,
               baseConnection |-> buildBaseConnection(out.base, resolveBaseDatabaseName(out.base)),
               connection |-> tenantConnection(out.base, out.id, out.pw)]
    /\ UNCHANGED <<manager, cfg, calls, table, files, hist>>

ConnectionNext ==
    \/ buildConfig

ConnectionSpec == ConnectionInit /\ [][ConnectionNext]_vars

(* --------------------------- bootstrap migration ------------------------ *)

\* variant of listMigrationFiles that looks at TypeScript files only
listMigrationFiles_tsOnly(dir) ==
    IF ~dir.exists THEN {} ELSE {f \in dir.entries : f.ext = "ts"}

\* listMigrationFiles: the .js and .ts files of the directory, none if it is missing
listMigrationFiles(dir) ==
    IF ~dir.exists THEN {} ELSE {f \in dir.entries : f.ext \in {"js", "ts"}}

\* files.some(file => readFileSync(file).includes(REGISTRY_MARKER))
hasRegistry(dir) == \E f \in listMigrationFiles(dir) : f.marker

\* ensureRegistryMigration(options), called in the second `now`
ensureRegistryMigration(now) ==
    /\ calls < MaxOps /\ calls' = calls + 1
    /\ IF ~files.configured
       THEN /\ out' = [op |-> "ensure", err |-> "MigrationsDirRequired"]
            /\ UNCHANGED <<files, hist>>
       ELSE /\ hist' = [hist EXCEPT !.ensures = @ + 1]
            /\ IF hasRegistry(files)
               THEN /\ out' = [op |-> "ensure", err |-> "", created |-> FALSE]
                    /\ UNCHANGED files
               ELSE LET fileName == now \o "_create_tenant_registry"
                        written == [name |-> fileName, ext |-> "js", marker |-> TRUE]
                    IN  /\ files' = [files EXCEPT
                              !.exists = TRUE,
                              !.entries = {f \in @ : ~(f.name = fileName /\ f.ext = "js")}
                                          \cup {written}]
                        /\ out' = [op |-> "ensure", err |-> "", created |-> TRUE,
                                   filePath |-> fileName]
    /\ UNCHANGED <<manager, cfg, table>>

RegistryNext ==
    \/ \E c \in HelperConfigs : configure(c)
    \/ \E id \in Tenants, pw \in ToolPwArgs : upsert(id, pw)
    \/ \E now \in Times : ensureRegistryMigration(now)

RegistrySpec == RegistryInit /\ [][RegistryNext]_vars

(* ---------------------- claims about the helpers ------------------------ *)

\* rows of the table stored under id
RowsOf(tbl, id) == {i \in DOMAIN tbl : tbl[i].id = id}

\* the columns stored under id (of one of its rows), NoRow when there is none
StoredRow(tbl, id) ==
    IF RowsOf(tbl, id) = {} THEN NoRow
    ELSE columnsOf(tbl[CHOOSE i \in RowsOf(tbl, id) : TRUE])

C12_OneRowPerId ==
    \A id \in Tenants :
        /\ Cardinality(RowsOf(table, id)) <= 1
        /\ hist.ups[id] # <<>> => Cardinality(RowsOf(table, id)) = 1

\* C12 witness: an id was upserted twice with different passwords and has one row
C12_Witness ==
    \E id \in Tenants :
        /\ Len(hist.ups[id]) = 2
        /\ Present(hist.ups[id][1].pw) /\ Present(hist.ups[id][2].pw)
        /\ hist.ups[id][1].pw # hist.ups[id][2].pw
        /\ Cardinality(RowsOf(table, id)) = 1

\* C13: after a second upsert for id the row of id is the row the second call alone
\* would have written: nothing of the first call's credential remains
C13_SecondUpsertDecides ==
    \A id \in Tenants :
        Len(hist.ups[id]) >= 2
        => tableRow(id, StoredRow(table, id)) = hist.ups[id][Len(hist.ups[id])].row

\* C18: for a client that is not SQLite the connection built for tenant id targets the
\* tenant's database, not the base database; with a password argument its user is
\* userPrefix + id ("user_" when no prefix is configured) and its password the
\* argument; without one it has the base user and the base password
C18_TenantConnection ==
    (out.op = "config" /\ ~isSqliteClient(cfg.client))
    => LET c == out.connection
           prefix == IF out.base.userPrefix = NoPw THEN "user_" ELSE out.base.userPrefix
       IN  /\ c.database = out.id
           /\ c.database # out.baseConnection.database
           /\ out.pw # NoPw => (c.user = prefix \o out.id /\ c.password = out.pw)
           /\ out.pw = NoPw => (c.user = out.baseConnection.user
                                /\ c.password = out.baseConnection.password)
           /\ (out.pw = NoPw /\ ~out.base.connection.given)
              => (c.user = out.base.user /\ c.password = out.base.password)

\* C18 witness: a connection built with a tenant password under a configured prefix
C18_Witness ==
    /\ out.op = "config" /\ ~isSqliteClient(cfg.client)
    /\ out.pw = "p2" /\ out.base.userPrefix = "t_" /\ out.base.password = "basepw"
    /\ out.connection.user = "t_a" /\ out.connection.password = "p2"

\* plaintext of the encrypted values a row can hold
C19_Plain(e) == IF e = "enc:s3cret" THEN "s3cret" ELSE "p2"

\* the password C19 states for a row read under the given options
C19_Resolved(tenant, o) ==
    IF Present(tenant.password) THEN tenant.password
    ELSE IF Present(tenant.encryptedPassword) /\ o.decryptPassword
    THEN "hook:" \o C19_Plain(tenant.encryptedPassword)
    ELSE IF Present(tenant.encryptedPassword) /\ o.key
    THEN "key:" \o C19_Plain(tenant.encryptedPassword)
    ELSE NoPw

\* C19: the password a CLI command resolves for a registered tenant is the row's
\* plaintext if present, else the encrypted value through the explicit decrypt hook,
\* else through the TENORA_KEY default, else none
C19_PasswordResolution ==
    out.op = "password" => out.pwd = C19_Resolved(out.tenant, out.options)

\* sentinel-bearing files of the migrations directory
MarkerFiles == {f \in files.entries : f.marker}

\* C20: the migrations directory never holds more than one file with the registry
\* sentinel, and every ensureRegistryMigration call after the first reports
\* created = false and leaves the directory as it is
C20_BootstrapIdempotent ==
    /\ [](Cardinality(MarkerFiles) <= 1)
    /\ [][\A now \in Times :
             (ensureRegistryMigration(now) /\ hist.ensures >= 1)
             => (out'.created = FALSE /\ files' = files)]_vars

\* C20 witness: the first call wrote the migration, a later call found it
C20_Witness ==
    /\ hist.ensures >= 2
    /\ out.op = "ensure" /\ out.err = "" /\ out.created = FALSE
    /\ \E f \in MarkerFiles : f.ext = "js"

\* C21: for a SQLite client both the base descriptor and the descriptor built for a
\* tenant carry their target as filename and have no database field, also when
\* base.connection brings a database field; without base.connection the base filename
\* is base.database and the tenant filename is <id><suffix> (".sqlite" unless
\* configured) in the directory of the base file
C21_SqliteDescriptor ==
    (out.op = "config" /\ isSqliteClient(cfg.client))
    => LET b == out.base
           suffix == IF b.databaseSuffix = NoPw THEN ".sqlite" ELSE b.databaseSuffix
           baseFile == IF b.connection.given /\ b.connection.filename # NoPw
                       THEN b.connection.filename ELSE b.database
       IN  /\ out.baseConnection.filename = baseFile
           /\ out.baseConnection.database = NoPw
           /\ out.connection.filename # NoPw
           /\ out.connection.database = NoPw
           /\ ~b.connection.given
              => /\ out.baseConnection.filename = b.database
                 /\ b.database = "data/base.sqlite"
                    => out.connection.filename = "data/" \o out.id \o suffix
                 /\ b.database = "base_db"
                    => out.connection.filename = out.id \o suffix

\* C21 witness: a SQLite tenant descriptor built from a base.connection that has a
\* database field
C21_Witness ==
    /\ out.op = "config" /\ isSqliteClient(cfg.client)
    /\ out.base.connection.database = "stray_db"
    /\ out.base.databaseSuffix = NoPw
    /\ out.connection.filename = "conn/a.sqlite"

(* ======================================================================== *)
(* factory/shared.ts as pure functions: the client families and the         *)
(* escaping of identifiers and string literals put into generated SQL.      *)
(* ======================================================================== *)

\* longest identifier escaped
MaxLen == 3

\* characters identifiers are made of, by name: a letter, the double quote, the
\* backtick, the closing bracket and the single quote
Chars == {"a", "dquote", "backtick", "rbracket", "squote"}

\* identifiers as sequences of characters
Idents == UNION {[1..n -> Chars] : n \in 0..MaxLen}

\* base.client values: every alias, undefined, and identifiers no family knows
ClientIds == AliasTable \cup {NoPw, "", "PG", "pgsql", "oracledb", "sqlite2", "mssql2"}

EscapeFns == {"escapePgIdent", "escapeMysqlIdent", "escapeMssqlIdent", "escapeSqlString"}

\* resolveClient: value ?? "pg"
resolveClient(value) == IF value = NoPw THEN "pg" ELSE value

\* value.replace(/q/g, qq)
RECURSIVE replaceAll(_, _)
replaceAll(value, q) ==
    IF value = <<>> THEN <<>>
    ELSE (IF Head(value) = q THEN <<q, q>> ELSE <<Head(value)>>) \o replaceAll(Tail(value), q)

escapePgIdent(value) == replaceAll(value, "dquote")

escapeMysqlIdent(value) == replaceAll(value, "backtick")

\* variant of escapeMssqlIdent that passes the identifier through
escapeMssqlIdent_raw(value) == value

escapeMssqlIdent(value) == replaceAll(value, "rbracket")

escapeSqlString(value) == replaceAll(value, "squote")

SharedInit ==
    /\ out \in [op : {"args"}, fn : {"classify"}, value : ClientIds]
              \cup [op : {"args"}, fn : EscapeFns, value : Idents]
    /\ cfg \in {c \in Configs : c.client = "pg"}
    /\ registryTable = TRUE
    /\ cache = [id \in Tenants |-> 0]
    /\ handles = <<>>
    /\ baseSt = "open"
    /\ dbs = {}
    /\ users = {}
    /\ registry = [id \in Tenants |-> NoRow]
    /\ tasks = [t \in Tasks |-> NoTask]
    /\ got = [id \in Tenants |-> NoGet]
    /\ gone = [id \in Tenants |-> NoGone]
    /\ calls = 0
    /\ table = <<>>
    /\ files = NoDir
    /\ hist = NoHist

\* the four family predicates applied to resolveClient(base.client)
classify ==
    /\ out.op = "args" /\ out.fn = "classify"
    /\ LET client == resolveClient(out.value)
       IN  out' = [op |-> "class", value |-> out.value, client |-> client,
                   postgres |-> isPostgresClient(client), mysql |-> isMysqlClient(client),
                   sqlite |-> isSqliteClient(client), mssql |-> isMssqlClient(client)]
    /\ UNCHANGED <<manager, cfg, calls, table, files, hist>>

\* one escape function applied to an identifier
escape(fn) ==
    /\ out.op = "args" /\ out.fn = fn
    /\ out' = [op |-> "escaped", fn |-> fn, value |-> out.value,
               text |-> CASE fn = "escapePgIdent" -> escapePgIdent(out.value)
                          [] fn = "escapeMysqlIdent" -> escapeMysqlIdent(out.value)
                          [] fn = "escapeMssqlIdent" -> escapeMssqlIdent(out.value)
                          [] fn = "escapeSqlString" -> escapeSqlString(out.value)]
    /\ UNCHANGED <<manager, cfg, calls, table, files, hist>>

SharedNext ==
    \/ classify
    \/ \E fn \in EscapeFns : escape(fn)

SharedSpec == SharedInit /\ [][SharedNext]_vars

\* number of family predicates a classification found true
C22_Families(c) ==
    Cardinality({f \in {"postgres", "mysql", "sqlite", "mssql"} : c[f]})

\* C22: every client identifier is classified without an error, at most one family
\* predicate is true for it, an alias of the table satisfies exactly the predicate of
\* its family, and an identifier outside the table satisfies none
C22_ClassificationTotal ==
    /\ (out.op = "args" /\ out.fn = "classify") => ENABLED classify
    /\ out.op = "class"
       => /\ C22_Families(out) <= 1
          /\ out.postgres <=> out.client \in {"pg", "postgres", "postgresql"}
          /\ out.mysql <=> out.client \in {"mysql", "mysql2", "mariadb"}
          /\ out.sqlite <=> out.client \in {"sqlite3", "better-sqlite3", "sqlite"}
          /\ out.mssql <=> out.client \in {"mssql", "sqlserver"}
          /\ out.client \notin AliasTable => C22_Families(out) = 0
          /\ out.client \in AliasTable => C22_Families(out) = 1

\* C22 witness: an alias classified into its family alone
C22_Witness ==
    /\ out.op = "class" /\ out.client = "sqlserver"
    /\ out.mssql /\ ~out.sqlite /\ ~out.postgres /\ ~out.mysql

\* the quote character an escape function doubles
C23_Quote(fn) ==
    CASE fn = "escapePgIdent" -> "dquote"
      [] fn = "escapeMysqlIdent" -> "backtick"
      [] fn = "escapeMssqlIdent" -> "rbracket"
      [] fn = "escapeSqlString" -> "squote"

\* un-doubling: every pair of quote characters becomes one
RECURSIVE C23_Undouble(_, _)
C23_Undouble(text, q) ==
    IF text = <<>> THEN <<>>
    ELSE IF Len(text) >= 2 /\ text[1] = q /\ text[2] = q
    THEN <<q>> \o C23_Undouble(Tail(Tail(text)), q)
    ELSE <<Head(text)>> \o C23_Undouble(Tail(text), q)

\* every quote character of the text is one of a pair
RECURSIVE C23_Paired(_, _)
C23_Paired(text, q) ==
    IF text = <<>> THEN TRUE
    ELSE IF text[1] = q
    THEN Len(text) >= 2 /\ text[2] = q /\ C23_Paired(Tail(Tail(text)), q)
    ELSE C23_Paired(Tail(text), q)

\* C23: un-doubling the quote character in an escaped identifier gives the identifier
\* back, and the escaped text has no quote character outside a pair
C23_EscapeRoundTrip ==
    out.op = "escaped"
    => /\ C23_Undouble(out.text, C23_Quote(out.fn)) = out.value
       /\ C23_Paired(out.text, C23_Quote(out.fn))

\* C23 witness: an identifier that ends in the closing quote of its dialect
C23_Witness ==
    /\ out.op = "escaped" /\ out.fn = "escapeMssqlIdent"
    /\ out.value = <<"a", "rbracket">>
    /\ out.text = <<"a", "rbracket", "rbracket">>

(* ======================================================================== *)
(* Order of the provisioning steps and lifetime of cached handles.          *)
(* ======================================================================== *)

PgOrMysql == isPostgresClient(cfg.client) \/ isMysqlClient(cfg.client)

\* the step taken is a step of the call in slot t that is at position pc
StepAt(t, pc) == tasks[t].pc = pc /\ tasks'[t].pc # pc

\* C24 as stated: a successful createTenantDb has persisted the registry row before
\* it released the temporary tenant connection and removed the cache entry
C24_RegistryBeforeRelease ==
    \A t \in Tasks :
        (Terminated(t) /\ tasks[t].err = "")
        => \E i, j \in DOMAIN tasks[t].log :
              i < j /\ tasks[t].log[i] = "registry" /\ tasks[t].log[j] = "release"

\* C24 amended: a successful createTenantDb releases the temporary tenant connection
\* and removes the cache entry first and persists the registry row as its last step:
\* the release step closes the connection, empties the cache entry and leaves the
\* registry alone, and the registry is written by a call that has released
C24_ReleaseBeforeRegistry ==
    /\ [](\A t \in Tasks :
             (Terminated(t) /\ tasks[t].err = "")
             => LET n == Len(tasks[t].log)
                IN  n >= 2 /\ tasks[t].log[n - 1] = "release" /\ tasks[t].log[n] = "registry")
    /\ [][\A t \in Tasks :
             StepAt(t, "cr_release")
             => /\ registry' = registry
                /\ handles'[tasks[t].h2].st = "closed"
                /\ cache'[tasks[t].id] = 0]_vars
    /\ [][\A t \in Tasks :
             (Created(t) /\ tasks'[t] # tasks[t] /\ registry' # registry)
             => (tasks[t].h2 = 0 /\ "release" \in Range(tasks[t].log))]_vars

\* C24 witness: a call has completed, its last two steps being release and registry
C24_Witness ==
    \E t \in Tasks :
        /\ Terminated(t) /\ tasks[t].err = ""
        /\ SubSeq(tasks[t].log, Len(tasks[t].log) - 1, Len(tasks[t].log))
             = <<"release", "registry">>
        /\ registry[tasks[t].id].present
        /\ \A h \in HandleIds : handles[h].kind # "temp"

\* C25: a getTenant(id, pw) call made once createTenantDb(id) has settled successfully
\* returns an instance created after that call deleted the cache entry of id (instances
\* are numbered in creation order and mark is their number at the deletion), hence
\* never one that was cached before the provisioning started
C25_FreshAfterProvisioning ==
    [][\A id \in Tenants, pw \in PwArgs, t \in Tasks :
          (getTenant(id, pw) /\ Terminated(t) /\ tasks[t].id = id /\ tasks[t].err = "")
          => /\ cache'[id] > tasks[t].mark
             /\ handles'[cache'[id]].kind = "tenant"
             /\ handles'[cache'[id]].tenant = id]_vars

\* C25 witness: an instance of the tenant existed before the provisioning released, and
\* the getTenant call after the successful provisioning got a later one
C25_Witness ==
    \E t \in Tasks :
        /\ Terminated(t) /\ tasks[t].err = ""
        /\ tasks[t].mark >= 2
        /\ got[tasks[t].id].h > tasks[t].mark
        /\ got[tasks[t].id].h = cache[tasks[t].id]

\* variant of afterGetTenant without the cache lookup
afterGetTenant_noLookup(st, id, pw) ==
    [cache |-> [st.cache EXCEPT ![id] = Len(st.handles) + 1],
     handles |-> Append(st.handles, buildTenantConfig(id, pw)),
     returned |-> Len(st.handles) + 1]

\* getTenant as a function of the cache and the instances: the cache and instances
\* after the call and the instance it returns
afterGetTenant(st, id, pw) ==
    IF st.cache[id] # 0
    THEN [cache |-> st.cache, handles |-> st.handles, returned |-> st.cache[id]]
    ELSE [cache |-> [st.cache EXCEPT ![id] = Len(st.handles) + 1],
          handles |-> Append(st.handles, buildTenantConfig(id, pw)),
          returned |-> Len(st.handles) + 1]

\* the cache and the instances now
Now == [cache |-> cache, handles |-> handles, returned |-> 0]

\* C26 as stated: when two requests are about to call getTenant for the same uncached
\* id, the two calls can both create an instance, one of which ends up in the cache
\* while the other is open and not in the cache
C26_BothCanOpen ==
    \A id \in Tenants :
        (cache[id] = 0 /\ Len(handles) + 2 <= MaxHandles)
        => \E pw1, pw2 \in PwArgs :
              LET s1 == afterGetTenant(Now, id, pw1)
                  s2 == afterGetTenant(s1, id, pw2)
              IN  /\ Len(s2.handles) = Len(handles) + 2
                  /\ s1.returned # s2.returned
                  /\ s2.cache[id] \in {s1.returned, s2.returned}

\* C26 amended: getTenant runs without suspension, so of two getTenant calls for the
\* same uncached id the first creates and caches one instance and the second returns
\* that instance; no call creates an instance it does not cache
C26_SecondCallReuses ==
    /\ [](\A id \in Tenants, pw1, pw2 \in PwArgs :
             cache[id] = 0
             => LET s1 == afterGetTenant(Now, id, pw1)
                    s2 == afterGetTenant(s1, id, pw2)
                IN  /\ Len(s2.handles) = Len(handles) + 1
                    /\ s1.returned = Len(handles) + 1
                    /\ s2.returned = s1.returned
                    /\ s2.cache[id] = s1.returned
                    /\ s2.handles[s1.returned].st = "open")
    /\ [][\A id \in Tenants, pw \in PwArgs :
             getTenant(id, pw)
             => LET s1 == afterGetTenant(Now, id, pw)
                IN  /\ cache' = s1.cache /\ handles' = s1.handles
                    /\ got'[id].h = s1.returned
                    /\ Len(handles') > Len(handles) => cache'[id] = Len(handles')]_vars

\* C26 witness: a second getTenant call with another password got the one instance the
\* first call had created
C26_Witness ==
    \E id \in Tenants :
        /\ got[id].h # 0 /\ got[id].h = cache[id]
        /\ got[id].pw = "s3cret" /\ handles[cache[id]].pw = NoPw
        /\ handles[cache[id]].st = "open"
        /\ Cardinality({h \in HandleIds : handles[h].tenant = id}) = 1
        /\ \A t \in Tasks : tasks[t] = NoTask

\* the database of id exists, the tenant is not registered, and no call that started
\* before the database existed is still running
Orphan(id) ==
    /\ id \in dbs /\ ~registry[id].present
    /\ \A t \in Tasks : (Running(t) /\ tasks[t].id = id) => tasks[t].dbAtStart

\* C27: on Postgres and MySQL, once the database of id exists without a registry row
\* and the call that created it has ended, it stays so whatever calls follow; a call
\* started in that situation ends with an error, "already exists" when its existence
\* query was answered, and writes no registry row
C27_RetryNeverCompletes ==
    /\ [][\A id \in Tenants : (PgOrMysql /\ Orphan(id)) => Orphan(id)']_vars
    /\ [](\A t \in Tasks :
             (PgOrMysql /\ Terminated(t) /\ tasks[t].dbAtStart /\ ~tasks[t].rowAtStart)
             => /\ tasks[t].err # ""
                /\ "registry" \notin Range(tasks[t].log)
                /\ tasks[t].log = <<"admin", "check">> => tasks[t].err = "AlreadyExists")

\* C27 witness: the first call failed after CREATE DATABASE, the retry has failed with
\* "already exists", and the tenant is still not registered
C27_Witness ==
    \E t \in Tasks :
        /\ PgOrMysql /\ Terminated(t)
        /\ tasks[t].dbAtStart /\ ~tasks[t].rowAtStart
        /\ tasks[t].err = "AlreadyExists"
        /\ Orphan(tasks[t].id)

\* C28: whenever the cache entry of a tenant id is removed or replaced, the instance
\* that was stored under it has been closed
C28_EvictedIsClosed ==
    [][\A id \in Tenants :
          (cache[id] # 0 /\ cache'[id] # cache[id])
          => handles'[cache[id]].st = "closed"]_vars

\* C29: when destroyAll completes, every instance getTenant created is closed
C29_AllClosedAfterDestroyAll ==
    [][\A t \in Tasks :
          StepAt(t, "da_base")
          => \A h \in DOMAIN handles' : handles'[h].kind # "tenant"]_vars

\* C30: the instance a getTenant call returns is open: no close of it has started
C30_ReturnedIsOpen ==
    [][\A id \in Tenants, pw \in PwArgs :
          getTenant(id, pw) => handles'[cache'[id]].st = "open"]_vars

(* ------------------ destroyAll with a failing close -------------------- *)

\* await Promise.all(...) rejects: the destroy() of cached instance f failed. The other
\* instances of the snapshot still close; cache.clear() and baseClient.destroy() are
\* skipped and the call ends with the error
destroyAllFail(t) ==
    /\ UNCHANGED <<calls, tools>>
    /\ tasks[t].pc = "da_await"
    /\ \E f \in tasks[t].snap :
          handles' = [EndClose(handles, tasks[t].snap \ {f}) EXCEPT ![f].st = "open"]
    /\ tasks' = [tasks EXCEPT ![t] = NoTask]
    /\ UNCHANGED <<cfg, cache, baseSt, dbs, users, registryTable, registry, got, gone>>

ShutdownNext ==
    \/ \E id \in Tenants, pw \in PwArgs : getTenant(id, pw)
    \/ \E t \in Tasks, id \in Tenants : destroyTenantCall(t, id)
    \/ \E t \in Tasks : destroyTenantResume(t)
    \/ \E t \in Tasks : destroyAllCall(t)
    \/ \E t \in Tasks : destroyAllClear(t)
    \/ \E t \in Tasks : destroyAllFail(t)
    \/ \E t \in Tasks : destroyAllResume(t)

ShutdownSpec == Init /\ [][ShutdownNext]_vars

\* C31: when destroyAll stops waiting for the tenant instances to close, because they
\* all closed or because one close failed, the cache is emptied and the base
\* instance is being closed
C31_FailedCloseStillClosesBase ==
    [][\A t \in Tasks :
          StepAt(t, "da_await")
          => /\ \A id \in Tenants : cache'[id] = 0
             /\ baseSt' # "open"]_vars

\* C32: the open instance a getTenant(id, pw) call returns is configured with the
\* password that call supplied, whatever earlier calls for the id supplied
C32_ReturnedHasCallersCredentials ==
    [][\A id \in Tenants, pw \in PwArgs :
          (getTenant(id, pw) /\ handles'[cache'[id]].st = "open")
          => handles'[cache'[id]].pw = normalizePassword(pw)]_vars

(* --------------------- cli/commands.ts: CLI commands -------------------- *)

\* commands run one after another in a behaviour
MaxRuns == 2

BaseCommands == {"migrate", "migrate:base", "rollback"}

TenantCommands == {"migrate:tenants", "rollback:tenants", "seed:run:tenants"}

\* the commands that call ensureRegistryMigrationIfNeeded before creating the manager
EnsuringCommands == {"migrate", "migrate:base", "migrate:tenants", "seed:run:tenants"}

\* the commands with a --create-base option
CreateBaseCommands == EnsuringCommands

\* the second the CLI runs in
CliNow == "20260101000000"

\* base migration directories the CLI is pointed at
CliDirs == StartDirs

\* the rows of the registry table: tenant a has a stored password, tenant b has none
CliRow(id) ==
    [present |-> TRUE, password |-> IF id = "a" THEN "s3cret" ELSE NoPw, encrypted |-> NoPw]

\* the orders in which a select without ORDER BY can return the rows of S
Orders(S) ==
    {q \in [1..Cardinality(S) -> S] : \A i, j \in DOMAIN q : q[i] = q[j] => i = j}

\* a CLI process: the command, where it stands, the tenants still to process, the
\* tenants whose step was started, the tenants completed, the error it ends with and
\* whether it wrote the registry migration
CliProcess(cmd) ==
    [op |-> cmd, pc |-> "exit", queue |-> <<>>, ran |-> <<>>, done |-> <<>>, err |-> "",
     generated |-> FALSE, base |-> FALSE]

\* no command has run: no manager exists; the base database may or may not have the
\* registry table, and only then can it hold tenant rows
CliInit ==
    /\ cfg \in {c \in Configs : c.client = "pg"}
    /\ registryTable \in BOOLEAN
    /\ \E S \in SUBSET Tenants :
          /\ registryTable = FALSE => S = {}
          /\ registry = [id \in Tenants |-> IF id \in S THEN CliRow(id) ELSE NoRow]
    /\ cache = [id \in Tenants |-> 0]
    /\ handles = <<>>
    /\ baseSt = "none"
    /\ dbs = {}
    /\ users = {}
    /\ tasks = [t \in Tasks |-> NoTask]
    /\ got = [id \in Tenants |-> NoGet]
    /\ gone = [id \in Tenants |-> NoGone]
    /\ calls = 0
    /\ table = <<>>
    /\ files \in CliDirs
    /\ out = CliProcess("none")
    /\ hist = NoHist

CliFrame == UNCHANGED <<cfg, dbs, users, tasks, got, gone, table, hist>>

\* ensureRegistryMigration writing a file without the registry marker
registryMigrationWritten_noMarker(dir, now) ==
    LET fileName == now \o "_create_tenant_registry"
    IN  [dir EXCEPT !.exists = TRUE,
                    !.entries = {f \in @ : ~(f.name = fileName /\ f.ext = "js")}
                                \cup {[name |-> fileName, ext |-> "js", marker |-> FALSE]}]

\* the file ensureRegistryMigration writes into the directory
registryMigrationWritten(dir, now) ==
    LET fileName == now \o "_create_tenant_registry"
    IN  [dir EXCEPT !.exists = TRUE,
                    !.entries = {f \in @ : ~(f.name = fileName /\ f.ext = "js")}
                                \cup {[name |-> fileName, ext |-> "js", marker |-> TRUE]}]

\* a command starts in a new process: loadCliConfig, ensureBaseDatabase under
\* --create-base (baseOk: whether it succeeds), ensureRegistryMigrationIfNeeded for the
\* migrate and seed commands, then createTenoraFactory
cliStart(cmd, createBase, baseOk) ==
    /\ calls < MaxRuns /\ calls' = calls + 1
    /\ out.pc = "exit"
    /\ createBase => cmd \in CreateBaseCommands
    /\ ~createBase => baseOk
    /\ cache' = [id \in Tenants |-> 0]
    /\ handles' = <<>>
    /\ IF ~baseOk
       THEN /\ out' = [CliProcess(cmd) EXCEPT !.err = "BaseDatabase"]
            /\ baseSt' = "none"
            /\ UNCHANGED files
       ELSE IF cmd \in EnsuringCommands /\ ~files.configured
       THEN /\ out' = [CliProcess(cmd) EXCEPT !.err = "MigrationsDirRequired"]
            /\ baseSt' = "none"
            /\ UNCHANGED files
       ELSE IF cmd \in EnsuringCommands /\ ~hasRegistry(files)
       THEN /\ files' = registryMigrationWritten(files, CliNow)
            /\ out' = [CliProcess(cmd) EXCEPT !.generated = TRUE]
            /\ baseSt' = "none"
       ELSE /\ out' = [CliProcess(cmd) EXCEPT
                          !.pc = IF cmd \in BaseCommands THEN "base_run" ELSE "list"]
            /\ baseSt' = "open"
            /\ UNCHANGED files
    /\ UNCHANGED <<registryTable, registry>>
    /\ CliFrame

\* await base.migrate.latest() / base.migrate.rollback() settles; the registry
\* migration of the directory is applied by latest and may be undone by rollback
cliBaseRun(ok, undone) ==
    /\ out.pc = "base_run"
    /\ undone => (ok /\ out.op = "rollback")
    /\ out' = [out EXCEPT !.pc = "finally", !.base = TRUE,
                          !.err = IF ok THEN "" ELSE "MigrationFailed"]
    /\ registryTable' = IF ~ok THEN registryTable
                        ELSE IF out.op = "rollback" THEN (registryTable /\ ~undone)
                        ELSE (registryTable \/ hasRegistry(files))
    /\ registry' = IF registryTable' THEN registry ELSE [id \in Tenants |-> NoRow]
    /\ UNCHANGED <<calls, cache, handles, baseSt, files>>
    /\ CliFrame

\* const tenants = await listTenantsFromRegistry(manager.getBase(), cfg)
cliList(order) ==
    /\ out.pc = "list"
    /\ order \in Orders({id \in Tenants : registry[id].present})
    /\ out' = IF ensureRegistryTable
              THEN [out EXCEPT !.pc = "loop", !.queue = order]
              ELSE [out EXCEPT !.pc = "finally", !.err = "RegistryMissing"]
    /\ UNCHANGED <<calls, cache, handles, baseSt, files, registryTable, registry>>
    /\ CliFrame

\* for (const tenant of tenants) { const pwd = getTenantPassword(...);
\* const tenantKnex = manager.getTenant(tenant.id, pwd); await tenantKnex.<step>() ...
\* and, after the last tenant, the end of the try block
cliOpen ==
    /\ out.pc = "loop"
    /\ IF out.queue = <<>>
       THEN /\ out' = [out EXCEPT !.pc = "finally"]
            /\ UNCHANGED <<cache, handles>>
       ELSE LET id == Head(out.queue)
                pwd == getTenantPassword(
                           [id |-> id, password |-> registry[id].password,
                            encryptedPassword |-> registry[id].encrypted],
                           [decryptPassword |-> FALSE, key |-> FALSE])
            IN  /\ IF cache[id] # 0
                   THEN UNCHANGED <<cache, handles>>
                   ELSE /\ handles' = Append(handles, buildTenantConfig(id, pwd))
                        /\ cache' = [cache EXCEPT ![id] = Len(handles) + 1]
                /\ out' = [out EXCEPT !.pc = "run", !.ran = Append(@, id)]
    /\ UNCHANGED <<calls, baseSt, files, registryTable, registry>>
    /\ CliFrame

\* the loop without tenantKnex.destroy(): a finished tenant's handle stays open
cliRun_keepOpen(ok) ==
    /\ out.pc = "run"
    /\ out' = IF ok
              THEN [out EXCEPT !.pc = "loop", !.queue = Tail(@),
                               !.done = Append(@, Head(out.queue))]
              ELSE [out EXCEPT !.pc = "finally", !.err = "TenantFailed"]
    /\ UNCHANGED <<calls, cache, handles, baseSt, files, registryTable, registry>>
    /\ CliFrame

\* the loop with the step's error caught: the batch goes on with the next tenant
cliRun_goOn(ok) ==
    /\ out.pc = "run"
    /\ handles' = StartClose(handles, {cache[Head(out.queue)]})
    /\ out' = [out EXCEPT !.pc = "close", !.err = IF ok THEN @ ELSE "TenantFailed"]
    /\ UNCHANGED <<calls, cache, baseSt, files, registryTable, registry>>
    /\ CliFrame

\* await tenantKnex.migrate.latest() / migrate.rollback() / seed.run() settles: on
\* success the result is logged and tenantKnex.destroy() is called, on failure the
\* error leaves the loop
cliRun(ok) ==
    /\ out.pc = "run"
    /\ IF ok
       THEN /\ handles' = StartClose(handles, {cache[Head(out.queue)]})
            /\ out' = [out EXCEPT !.pc = "close"]
       ELSE /\ out' = [out EXCEPT !.pc = "finally", !.err = "TenantFailed"]
            /\ UNCHANGED handles
    /\ UNCHANGED <<calls, cache, baseSt, files, registryTable, registry>>
    /\ CliFrame

\* await tenantKnex.destroy() resolved; next iteration
cliClose ==
    /\ out.pc = "close"
    /\ handles' = EndClose(handles, {cache[Head(out.queue)]})
    /\ out' = [out EXCEPT !.pc = "loop", !.queue = Tail(@), !.done = Append(@, Head(out.queue))]
    /\ UNCHANGED <<calls, cache, baseSt, files, registryTable, registry>>
    /\ CliFrame

\* finally { await manager.destroyAll() }: destroy() called on every cached instance
cliDestroyAll ==
    /\ out.pc = "finally"
    /\ handles' = StartClose(handles, CachedHandles)
    /\ out' = [out EXCEPT !.pc = "da_await"]
    /\ UNCHANGED <<calls, cache, baseSt, files, registryTable, registry>>
    /\ CliFrame

\* destroyAll: the instances closed; cache.clear(); baseClient.destroy() called
cliDestroyAllClear ==
    /\ out.pc = "da_await"
    /\ handles' = EndClose(handles, CachedHandles)
    /\ cache' = [id \in Tenants |-> 0]
    /\ baseSt' = "closing"
    /\ out' = [out EXCEPT !.pc = "da_base"]
    /\ UNCHANGED <<calls, files, registryTable, registry>>
    /\ CliFrame

\* destroyAll returned; the command ends, with the error of its try block if any
cliExit ==
    /\ out.pc = "da_base"
    /\ baseSt' = "closed"
    /\ out' = [out EXCEPT !.pc = "exit"]
    /\ UNCHANGED <<calls, cache, handles, files, registryTable, registry>>
    /\ CliFrame

CliNext ==
    \/ \E cmd \in BaseCommands \cup TenantCommands, createBase, baseOk \in BOOLEAN :
          cliStart(cmd, createBase, baseOk)
    \/ \E ok, undone \in BOOLEAN : cliBaseRun(ok, undone)
    \/ \E order \in Orders(Tenants) \cup Orders({"a"}) \cup Orders({"b"}) \cup Orders({}) :
          cliList(order)
    \/ cliOpen
    \/ \E ok \in BOOLEAN : cliRun(ok)
    \/ cliClose
    \/ cliDestroyAll
    \/ cliDestroyAllClear
    \/ cliExit

CliSpec == CliInit /\ [][CliNext]_vars

(* ------------------------ claims about the CLI -------------------------- *)

\* the instances that are not closed
OpenHandles == {h \in DOMAIN handles : handles[h].st # "closed"}

\* C33: during a batch tenant command at most one tenant instance is open at any moment,
\* tenants are taken one at a time in the listed order, and when the instance of a
\* tenant is opened every instance opened before it has been closed
C33_OneTenantHandleAtATime ==
    /\ [](out.op \in TenantCommands
          => /\ Cardinality(OpenHandles) <= 1
             /\ Len(out.ran) <= Len(out.done) + 1
             /\ \A i \in DOMAIN out.done : out.done[i] = out.ran[i])
    /\ [][(out.pc = "loop" /\ out'.pc = "run")
          => /\ OpenHandles = {}
             /\ out.ran = out.done]_vars

\* the second tenant of a batch is being processed: its instance is open and the
\* instance of the first tenant is closed
C33_Witness ==
    /\ out.op \in TenantCommands
    /\ out.pc = "run"
    /\ Len(out.done) = 1
    /\ Len(handles) = 2
    /\ handles[1].st = "closed"
    /\ handles[2].st = "open"

\* C34: when the step of a tenant fails in a batch command, the loop is left at once:
\* the failing tenant is the last one whose step was started and the later tenants of
\* the list stay unprocessed; destroyAll runs, and when the command ends it ends with
\* the error, every tenant instance closed and the base instance closed
C34_FirstFailureAborts ==
    /\ [](out.err = "TenantFailed"
          => /\ out.pc \in {"finally", "da_await", "da_base", "exit"}
             /\ out.queue # <<>>
             /\ out.ran = Append(out.done, Head(out.queue))
             /\ (out.pc = "exit" => baseSt = "closed" /\ OpenHandles = {}))
    /\ [][(out.pc = "run" /\ out'.err = "TenantFailed") => out'.pc = "finally"]_vars
    /\ [][(out.err = "TenantFailed" /\ out.pc # "exit")
          => (out'.err = out.err /\ out'.queue = out.queue /\ out'.ran = out.ran)]_vars

\* a batch over two tenants ended after the first tenant failed: the second was never
\* started and everything is closed
C34_Witness ==
    /\ out.op \in TenantCommands
    /\ out.pc = "exit"
    /\ out.err = "TenantFailed"
    /\ Len(out.queue) = 2
    /\ out.ran = <<Head(out.queue)>>
    /\ Len(handles) = 1
    /\ handles[1].st = "closed"
    /\ baseSt = "closed"

\* a step that starts a command
CliStarted == calls' = calls + 1

MigrateCommands == {"migrate", "migrate:base", "migrate:tenants"}

\* C35: a migrate command started on a migrations directory without a registry
\* migration writes the registry migration and ends: no manager is created, no instance
\* opened, no migration run; started on a directory that holds one (as every later run
\* is, the file staying in place) it writes nothing, creates the manager and goes on to
\* the migrations, which for the base commands is the next thing that happens
C35_FirstRunOnlyGenerates ==
    /\ [][(CliStarted /\ out'.op \in MigrateCommands /\ out'.err = "" /\ ~hasRegistry(files))
          => /\ out'.generated /\ hasRegistry(files')
             /\ out'.pc = "exit" /\ ~out'.base /\ out'.ran = <<>>
             /\ baseSt' = "none" /\ handles' = <<>>]_vars
    /\ [][(CliStarted /\ out'.op \in MigrateCommands /\ out'.err = "" /\ hasRegistry(files))
          => /\ ~out'.generated /\ files' = files
             /\ baseSt' = "open"
             /\ out'.pc = IF out'.op = "migrate:tenants" THEN "list" ELSE "base_run"]_vars
    /\ [][hasRegistry(files) => hasRegistry(files')]_vars
    /\ [][(out.pc = "base_run" /\ out' # out) => out'.base]_vars

\* the second run of migrate has run the base migrations from the directory the first
\* run wrote the registry migration into
C35_Witness ==
    /\ calls = 2
    /\ out.op = "migrate"
    /\ out.base /\ out.err = ""
    /\ \E f \in files.entries : f.name = CliNow \o "_create_tenant_registry" /\ f.marker
    /\ registryTable

(* ------------------- tenantResolver.ts: the resolver -------------------- *)

\* what tenantIdResolver(req) yields for a request: a tenant id or nothing
RequestIds == Tenants \cup {""}

\* createTenantResolver(opts): which of the optional hooks are given
ResolverOptions ==
    [op : {"resolver"}, passwordProvider : BOOLEAN, authorizer : BOOLEAN, attach : BOOLEAN]

ResolverInit ==
    /\ out \in ResolverOptions
    /\ cfg \in {c \in Configs : c.client = "pg"}
    /\ registryTable = TRUE
    /\ cache = [id \in Tenants |-> 0]
    /\ handles = <<>>
    /\ baseSt = "open"
    /\ dbs = {}
    /\ users = {}
    /\ registry = [id \in Tenants |-> NoRow]
    /\ tasks = [t \in Tasks |-> NoTask]
    /\ got = [id \in Tenants |-> NoGet]
    /\ gone = [id \in Tenants |-> NoGone]
    /\ calls = 0
    /\ table = <<>>
    /\ files = NoDir
    /\ hist = NoHist

ResolverFrame ==
    UNCHANGED <<cfg, baseSt, dbs, users, registryTable, registry, got, gone, table, files,
                out, hist>>

\* const knex = manager.getTenant(tenantId, password); if (authorizer) await ... else
\* attach and return. The task records the instance it got (h), whether this call
\* created it ("created" in log) and what it attached to the request (h2)
afterPassword(t, id, pw) ==
    LET made == cache[id] = 0
        knex == IF made THEN Len(handles) + 1 ELSE cache[id]
        log == IF made THEN <<"created">> ELSE <<>>
    IN  /\ IF made
           THEN /\ handles' = Append(handles, buildTenantConfig(id, pw))
                /\ cache' = [cache EXCEPT ![id] = knex]
           ELSE UNCHANGED <<cache, handles>>
        /\ tasks' = [tasks EXCEPT ![t] =
               IF out.authorizer
               THEN [@ EXCEPT !.pc = "rs_auth", !.pw = pw, !.h = knex, !.log = log]
               ELSE [@ EXCEPT !.pc = "done", !.pw = pw, !.h = knex, !.h2 = knex,
                              !.log = Append(log, "attached")]]

\* a request arrives: const tenantId = await tenantIdResolver(req)
resolveCall(t, id) ==
    /\ calls < MaxCalls /\ calls' = calls + 1
    /\ Free(t)
    /\ tasks' = [tasks EXCEPT ![t] = [NoTask EXCEPT !.op = "resolve", !.pc = "rs_id", !.id = id]]
    /\ UNCHANGED <<cache, handles>>
    /\ ResolverFrame

\* tenantIdResolver resolved: if (!tenantId) return {}; if (passwordProvider) await it
resolveTenantId(t) ==
    /\ tasks[t].pc = "rs_id"
    /\ IF tasks[t].id = ""
       THEN /\ tasks' = [tasks EXCEPT ![t].pc = "done"]
            /\ UNCHANGED <<cache, handles>>
       ELSE IF out.passwordProvider
       THEN /\ tasks' = [tasks EXCEPT ![t].pc = "rs_pw"]
            /\ UNCHANGED <<cache, handles>>
       ELSE afterPassword(t, tasks[t].id, NoPw)
    /\ UNCHANGED calls
    /\ ResolverFrame

\* password = await passwordProvider(tenantId) resolved
resolvePassword(t, pw) ==
    /\ tasks[t].pc = "rs_pw"
    /\ afterPassword(t, tasks[t].id, pw)
    /\ UNCHANGED calls
    /\ ResolverFrame

\* await authorizer(tenantId, req) settled: it resolved and the request gets tenantId
\* and knex attached and returned, or it threw and the resolver rejects
resolveAuthorized(t, ok) ==
    /\ tasks[t].pc = "rs_auth"
    /\ tasks' = [tasks EXCEPT ![t] =
           IF ok THEN [@ EXCEPT !.pc = "done", !.h2 = tasks[t].h, !.log = Append(@, "attached")]
                 ELSE [@ EXCEPT !.pc = "done", !.err = "Forbidden"]]
    /\ UNCHANGED <<calls, cache, handles>>
    /\ ResolverFrame

ResolverNext ==
    \/ \E t \in Tasks, id \in RequestIds : resolveCall(t, id)
    \/ \E t \in Tasks : resolveTenantId(t)
    \/ \E t \in Tasks, pw \in PwArgs : resolvePassword(t, pw)
    \/ \E t \in Tasks, ok \in BOOLEAN : resolveAuthorized(t, ok)

ResolverSpec == ResolverInit /\ [][ResolverNext]_vars

\* C36: a request the authorizer rejected has created and cached no instance, and
\* nothing was attached to it
C36_RejectedLeavesNoHandle ==
    \A t \in Tasks :
        (tasks[t].op = "resolve" /\ tasks[t].err = "Forbidden")
        => /\ \A i \in DOMAIN tasks[t].log : tasks[t].log[i] # "created"
           /\ tasks[t].h2 = 0

(* ------------- createTenantDb: what is created, what is used ------------- *)

\* tenant.databaseName: not configured, or a resolver that prefixes the tenant id
DatabaseNames == {NoPw, "tenant_"}

\* resolveTenantDatabaseName: tenant.databaseName ? tenant.databaseName(id) : id
tenantDatabaseName(databaseName, id) ==
    IF databaseName # NoPw THEN databaseName \o id ELSE resolveTenantDatabaseName(id)

\* the database createTenantDb looks up and creates: the existence query is bound to
\* tenantId and CREATE DATABASE names escape(tenantId)
createdDatabase(id) == id

\* `${tenant.userPrefix ?? "user_"}${tenantId}`
tenantUserName(base, id) == Coalesce(base.userPrefix, "user_") \o id

\* knex(buildTenantConfig(tenantId, tenantPassword)).connection on a networked client
provisionConnection(base, databaseName, id, pw) ==
    [tenantConnection(base, id, normalizePassword(pw)) EXCEPT
        !.database = tenantDatabaseName(databaseName, id)]

\* a factory on a networked client and the arguments of one createTenantDb(id, pw)
ProvisionInit ==
    /\ cfg \in {c \in Configs : c.client \in {"pg", "mysql2", "mssql"}}
    /\ out \in [op : {"args"}, base : BaseOptions, databaseName : DatabaseNames,
                id : Tenants, pw : ToolPwArgs]
    /\ registryTable = TRUE
    /\ cache = [id \in Tenants |-> 0]
    /\ handles = <<>>
    /\ baseSt = "open"
    /\ dbs = {}
    /\ users = {}
    /\ registry = [id \in Tenants |-> NoRow]
    /\ tasks = [t \in Tasks |-> NoTask]
    /\ got = [id \in Tenants |-> NoGet]
    /\ gone = [id \in Tenants |-> NoGone]
    /\ calls = 0
    /\ table = <<>>
    /\ files = NoDir
    /\ hist = NoHist

\* createTenantDb up to tenantKnex: the database created, whether the user was
\* created, and the connection the migrations and seeds run on
provision ==
    /\ out.op = "args"
    /\ out' = [op |-> "provisioned", base |-> out.base, databaseName |-> out.databaseName,
               id |-> out.id, pw |-> out.pw,
               created |-> createdDatabase(out.id),
               userCreated |-> wantsUser(out.pw),
               baseConnection |-> buildBaseConnection(out.base,
                                                      resolveBaseDatabaseName(out.base)),
               connection |-> provisionConnection(out.base, out.databaseName, out.id, out.pw)]
    /\ UNCHANGED <<manager, cfg, calls, table, files, hist>>

ProvisionNext ==
    \/ provision

ProvisionSpec == ProvisionInit /\ [][ProvisionNext]_vars

\* C37: the database createTenantDb created is the database its tenant connection
\* targets
C37_CreatedIsTargeted ==
    out.op = "provisioned" => out.connection.database = out.created

\* C38: the tenant connection of createTenantDb logs in as the tenant user only if the
\* call created that user, and as the base user otherwise
C38_TenantUserOnlyIfCreated ==
    out.op = "provisioned"
    => IF out.userCreated
       THEN out.connection.user = tenantUserName(out.base, out.id)
       ELSE out.connection.user = out.baseConnection.user

(* ------------- createTenantDb: the administrative statements ------------- *)

\* tenant passwords as sequences of characters
Passwords == {<<"a">>, <<"a", "squote">>}

\* tenant.userPrefix ?? "user_", as one character
UserPrefix == <<"u">>

\* one interpolation of a statement: the statement, the quotes it stands between
\* (named by the closing quote character, "param" for a bound parameter), the value
\* and the text put into the statement
Part(stmt, ctx, value, text) == [stmt |-> stmt, ctx |-> ctx, value |-> value, text |-> text]

\* the statements of the Postgres branch
pgStatements(id, pw) ==
    LET userName == UserPrefix \o id
        safeDb == escapePgIdent(id)
        safeUser == escapePgIdent(userName)
        safePwd == escapeSqlString(pw)
    IN  { Part("check", "param", id, id),
          Part("createdb", "dquote", id, safeDb),
          Part("user", "dquote", userName, safeUser),
          Part("user", "squote", pw, safePwd),
          Part("grant", "dquote", id, safeDb),
          Part("grant", "dquote", userName, safeUser) }

\* the statements of the MySQL branch
mysqlStatements(id, pw) ==
    LET userName == UserPrefix \o id
        safeDb == escapeMysqlIdent(id)
        safeUser == escapeSqlString(userName)
        safePwd == escapeSqlString(pw)
    IN  { Part("check", "param", id, id),
          Part("createdb", "backtick", id, safeDb),
          Part("user", "squote", userName, safeUser),
          Part("user", "squote", pw, safePwd),
          Part("grant", "backtick", id, safeDb),
          Part("grant", "squote", userName, safeUser) }

\* the statements of the SQL Server branch
mssqlStatements(id, pw) ==
    LET userName == UserPrefix \o id
        safeDb == escapeMssqlIdent(id)
        safeUser == escapeMssqlIdent(userName)
        safePwd == escapeSqlString(pw)
    IN  { Part("createdb", "squote", id, escapeSqlString(id)),
          Part("createdb", "rbracket", id, safeDb),
          Part("login", "squote", userName, escapeSqlString(userName)),
          Part("login", "rbracket", userName, safeUser),
          Part("login", "squote", pw, safePwd),
          Part("dbuser", "squote", userName, escapeSqlString(userName)),
          Part("dbuser", "rbracket", userName, safeUser),
          Part("role", "squote", userName, safeUser) }

\* a factory on a networked client and the arguments of one createTenantDb(id, pw)
\* with a password
StatementInit ==
    /\ cfg \in {c \in Configs : c.client \in {"pg", "mysql2", "mssql"}}
    /\ out \in [op : {"args"}, id : Idents \ {<<>>}, pw : Passwords]
    /\ registryTable = TRUE
    /\ cache = [id \in Tenants |-> 0]
    /\ handles = <<>>
    /\ baseSt = "open"
    /\ dbs = {}
    /\ users = {}
    /\ registry = [id \in Tenants |-> NoRow]
    /\ tasks = [t \in Tasks |-> NoTask]
    /\ got = [id \in Tenants |-> NoGet]
    /\ gone = [id \in Tenants |-> NoGone]
    /\ calls = 0
    /\ table = <<>>
    /\ files = NoDir
    /\ hist = NoHist

\* the statements createTenantDb sends on the client of the factory
generate ==
    /\ out.op = "args"
    /\ out' = [op |-> "statements", id |-> out.id, pw |-> out.pw,
               parts |-> IF isPostgresClient(cfg.client) THEN pgStatements(out.id, out.pw)
                         ELSE IF isMysqlClient(cfg.client) THEN mysqlStatements(out.id, out.pw)
                         ELSE mssqlStatements(out.id, out.pw)]
    /\ UNCHANGED <<manager, cfg, calls, table, files, hist>>

StatementNext ==
    \/ generate

StatementSpec == StatementInit /\ [][StatementNext]_vars

\* C39: every tenant-derived value in a generated statement is a bound parameter or is
\* escaped for the quotes it stands between: the closing quote appears only doubled,
\* and un-doubling it gives the value back
C39_EscapedForItsContext ==
    out.op = "statements"
    => \A part \in out.parts :
          \/ part.ctx = "param"
          \/ /\ C23_Paired(part.text, part.ctx)
             /\ C23_Undouble(part.text, part.ctx) = part.value

(* ------------------- a manager with an earlier tenant -------------------- *)

\* the manager of a base database in which tenant b was provisioned earlier: its
\* database exists and the registry holds its row
FrameInit ==
    /\ cfg \in Configs
    /\ registryTable = TRUE
    /\ cache = [id \in Tenants |-> 0]
    /\ handles = <<>>
    /\ baseSt = "open"
    /\ dbs = {"b"}
    /\ users = {}
    /\ registry = [id \in Tenants |->
                      IF id = "b" THEN upsertTenantInRegistry(NoRow, NoPw) ELSE NoRow]
    /\ tasks = [t \in Tasks |-> NoTask]
    /\ got = [id \in Tenants |-> NoGet]
    /\ gone = [id \in Tenants |-> NoGone]
    /\ calls = 0
    /\ table = <<>>
    /\ files = NoDir
    /\ out = NoOut
    /\ hist = NoHist

FrameSpec == FrameInit /\ [][Next]_vars

\* tenant b is as it was: its cache entry, every instance configured for it and its
\* registry row
Untouched(b) ==
    /\ cache'[b] = cache[b]
    /\ \A h \in DOMAIN handles : handles[h].tenant = b => handles'[h] = handles[h]
    /\ registry'[b] = registry[b]

\* the step taken is a step of a createTenantDb call in slot t
CreateStep(t) ==
    /\ tasks'[t].pc # tasks[t].pc
    /\ tasks[t].op = "createTenantDb" \/ tasks'[t].op = "createTenantDb"

\* C40: no step of getTenant(a, ...) or of createTenantDb(a, ...), failing or not,
\* changes the cache entry, an instance or the registry row of another tenant b
C40_OtherTenantsUntouched ==
    /\ [][\A id \in Tenants, pw \in PwArgs :
             getTenant(id, pw) => \A b \in Tenants \ {id} : Untouched(b)]_vars
    /\ [][\A t \in Tasks :
             CreateStep(t)
             => \A b \in Tenants \ {IF tasks[t].op = "createTenantDb"
                                    THEN tasks[t].id ELSE tasks'[t].id} : Untouched(b)]_vars

\* createTenantDb("a") has persisted a's row while b's instance is cached and open and
\* b's row is in the registry
C40_Witness ==
    /\ registry["a"].present
    /\ registry["b"].present
    /\ cache["b"] # 0
    /\ handles[cache["b"]].st = "open"
    /\ \E t \in Tasks : tasks[t].op = "createTenantDb" /\ tasks[t].id = "a"
                        /\ tasks[t].pc = "done" /\ tasks[t].err = ""

====
